---------------------------- MODULE Spec2Model ----------------------------
(***************************************************************************)
(* A model of the endpoint scanner gjfvieira/specter: the grammar cache    *)
(* (parsers/base.py), the Python, Java and Node.js convention analyzers    *)
(* (parsers/python.py, parsers/java.py, parsers/nodejs.py) and the batch   *)
(* loop of the scan command (main.py).                                     *)
(*                                                                         *)
(* Every component keeps its state in one record variable whose fields     *)
(* carry the names of the source's local variables.  Text is modelled as   *)
(* a sequence of one-character strings, so that str.replace, str.rstrip,   *)
(* str.strip and str.split are computed as Python computes them.           *)
(***************************************************************************)
EXTENDS Integers, Sequences, FiniteSets, TLC

VARIABLES norm, py, java, node, scan, reg

vars == <<norm, py, java, node, scan, reg>>

(***************************************************************************)
(* Text helpers.                                                           *)
(***************************************************************************)

\* The slash as a one-character text.
Slash == "/"

\* str.replace("//", "/"): one left-to-right pass over non-overlapping
\* occurrences; the text produced by a replacement is not scanned again.
RECURSIVE ReplaceDoubleSlash(_)
ReplaceDoubleSlash(s) ==
    IF Len(s) < 2 THEN s
    ELSE IF s[1] = Slash /\ s[2] = Slash
         THEN <<Slash>> \o ReplaceDoubleSlash(SubSeq(s, 3, Len(s)))
         ELSE <<s[1]>> \o ReplaceDoubleSlash(Tail(s))

\* str.rstrip(chars): drops every trailing character that is in chars.
RECURSIVE RStrip(_, _)
RStrip(s, chars) ==
    IF s # <<>> /\ s[Len(s)] \in chars
    THEN RStrip(SubSeq(s, 1, Len(s) - 1), chars)
    ELSE s

\* str.lstrip(chars): drops every leading character that is in chars.
RECURSIVE LStrip(_, _)
LStrip(s, chars) ==
    IF s # <<>> /\ s[1] \in chars THEN LStrip(Tail(s), chars) ELSE s

\* str.strip(chars)
Strip(s, chars) == RStrip(LStrip(s, chars), chars)

\* All texts over the alphabet of length at most n.
RECURSIVE TextsUpTo(_, _)
TextsUpTo(alphabet, n) ==
    IF n = 0 THEN {<<>>}
    ELSE LET shorter == TextsUpTo(alphabet, n - 1)
         IN  shorter \cup {Append(t, c) : t \in {u \in shorter : Len(u) = n - 1},
                                          c \in alphabet}

(***************************************************************************)
(* Java path normalisation: the f-string and the two string calls that     *)
(* build full_path, and the "or" that replaces an empty result.            *)
(***************************************************************************)

FullPath(base_path, path) ==
    LET full_path == RStrip(ReplaceDoubleSlash(base_path \o <<Slash>> \o path),
                            {Slash})
    IN  IF full_path = <<>> THEN <<Slash>> ELSE full_path

\* Longest base or method path drawn exhaustively.
MaxPathLen == 3

PathAlphabet == {Slash, "a", "u"}

ApiSlash == <<"/", "a", "p", "i", "/">>
UsersSlash == <<"/", "u", "s", "e", "r", "s", "/">>
ApiUsers == <<"/", "a", "p", "i", "/", "u", "s", "e", "r", "s">>

\* The base paths and method paths the normalisation is run on: every text
\* over the alphabet up to the bound, and the two texts of the spec's example.
PathInputs == TextsUpTo(PathAlphabet, MaxPathLen) \cup {ApiSlash, UsersSlash}

NormIdle == [pc |-> "idle", base_path |-> <<>>, path |-> <<>>, full_path |-> <<>>]

NormInit ==
    norm \in {[pc |-> "start", base_path |-> b, path |-> p, full_path |-> <<>>] :
                  b \in PathInputs, p \in PathInputs}

\* One evaluation of lines 223 and 230 of _find_methods.
NormJoin ==
    /\ norm.pc = "start"
    /\ norm' = [norm EXCEPT !.pc = "done",
                            !.full_path = FullPath(norm.base_path, norm.path)]
    /\ UNCHANGED <<py, java, node, scan, reg>>

HasDoubleSlash(s) == \E i \in 1..(Len(s) - 1) : s[i] = Slash /\ s[i + 1] = Slash


(***************************************************************************)
(* The grammar cache of parsers/base.py: _LANGUAGE_CACHE and the           *)
(* unsynchronised get_ts_language, called from several threads.  A thread  *)
(* may be suspended between any two of the steps below (between two        *)
(* bytecodes of CPython).                                                  *)
(***************************************************************************)

\* Threads calling get_ts_language, and calls each of them makes.
NThreads == 2
MaxCalls == 2

Threads == 1..NThreads

\* Language ids passed by the callers; "cobol" has no grammar.
LangIds == {"python", "java", "cobol"}

\* The ids tree_sitter_languages.get_language has a grammar for, among LangIds.
HasGrammar(lang) == lang \in {"python", "java", "javascript", "typescript"}

\* The value of a variable that holds no node and no text.
None == "None"

\* _LANGUAGE_CACHE with the entry for lang set to grammar (a dict store).
CacheStore(cache, lang, grammar) ==
    [l \in DOMAIN cache \cup {lang} |-> IF l = lang THEN grammar ELSE cache[l]]

RegIdle ==
    [_LANGUAGE_CACHE |-> [l \in {} |-> 0],
     pc       |-> [t \in Threads |-> "idle"],
     lang     |-> [t \in Threads |-> "python"],
     grammar  |-> [t \in Threads |-> 0],
     calls    |-> [t \in Threads |-> 0],
     created  |-> 0,
     returned |-> {}]

\* Every thread is about to call get_ts_language with some id.
RegInit ==
    \E ls \in [Threads -> LangIds] :
        reg = [RegIdle EXCEPT !.pc = [t \in Threads |-> "test"], !.lang = ls]

\* line 22: if lang not in _LANGUAGE_CACHE
RegTest(t) ==
    /\ reg.pc[t] = "test"
    /\ reg' = [reg EXCEPT !.pc[t] =
                   IF reg.lang[t] \notin DOMAIN reg._LANGUAGE_CACHE
                   THEN "get_language" ELSE "return"]
    /\ UNCHANGED <<norm, py, java, node, scan>>

\* line 23, right-hand side: get_language(lang) builds a new Language object;
\* objects are told apart by the order in which they were built (1, 2, ...).
RegGetLanguage(t) ==
    /\ reg.pc[t] = "get_language"
    /\ HasGrammar(reg.lang[t])
    /\ reg' = [reg EXCEPT !.pc[t] = "store",
                          !.grammar[t] = reg.created + 1,
                          !.created = reg.created + 1]
    /\ UNCHANGED <<norm, py, java, node, scan>>

\* A get_ts_language that leaves an entry for the id behind when it raises.
RegGetLanguageRaisesStores(t) ==
    /\ reg.pc[t] = "get_language"
    /\ ~HasGrammar(reg.lang[t])
    /\ reg' = [reg EXCEPT !.pc[t] = "raised", !.calls[t] = reg.calls[t] + 1,
                          !._LANGUAGE_CACHE =
                              CacheStore(reg._LANGUAGE_CACHE, reg.lang[t], 0)]
    /\ UNCHANGED <<norm, py, java, node, scan>>

\* line 23, right-hand side: get_language(lang) raises for an unknown id.
RegGetLanguageRaises(t) ==
    /\ reg.pc[t] = "get_language"
    /\ ~HasGrammar(reg.lang[t])
    /\ reg' = [reg EXCEPT !.pc[t] = "raised", !.calls[t] = reg.calls[t] + 1]
    /\ UNCHANGED <<norm, py, java, node, scan>>

\* line 23, the store: _LANGUAGE_CACHE[lang] = <the object just built>
RegStore(t) ==
    /\ reg.pc[t] = "store"
    /\ reg' = [reg EXCEPT !.pc[t] = "return",
                          !._LANGUAGE_CACHE =
                              CacheStore(reg._LANGUAGE_CACHE, reg.lang[t],
                                         reg.grammar[t])]
    /\ UNCHANGED <<norm, py, java, node, scan>>

\* line 24: return _LANGUAGE_CACHE[lang]
RegReturn(t) ==
    /\ reg.pc[t] = "return"
    /\ reg' = [reg EXCEPT !.pc[t] = "returned",
                          !.calls[t] = reg.calls[t] + 1,
                          !.returned = reg.returned \cup
                              {<<reg.lang[t], reg._LANGUAGE_CACHE[reg.lang[t]]>>}]
    /\ UNCHANGED <<norm, py, java, node, scan>>

\* The thread calls get_ts_language again, with any id.
RegCallAgain(t) ==
    /\ reg.pc[t] \in {"returned", "raised"}
    /\ reg.calls[t] < MaxCalls
    /\ \E l \in LangIds :
           reg' = [reg EXCEPT !.pc[t] = "test", !.lang[t] = l, !.grammar[t] = 0]
    /\ UNCHANGED <<norm, py, java, node, scan>>

RegNext ==
    \E t \in Threads :
        \/ RegTest(t)
        \/ RegGetLanguage(t)
        \/ RegGetLanguageRaises(t)
        \/ RegStore(t)
        \/ RegReturn(t)
        \/ RegCallAgain(t)


(***************************************************************************)
(* The requests of one caller, made one after the other, as the batch loop *)
(* makes them: get_analyzer (parsers/__init__.py), whose analyzer classes  *)
(* call get_ts_language from BaseAnalyzer.__init__, or get_ts_language     *)
(* itself.  The caller is thread 1 of the cache model.                     *)
(***************************************************************************)

\* Requests the caller makes.
MaxRequests == 3

\* Language ids passed to get_analyzer; "cobol" has no analyzer.
AnalyzerIds == {"python", "java", "javascript", "typescript", "cobol"}

\* lines 9-16 of get_analyzer: the language_name of the analyzer built for
\* the id, None when line 17 is reached.
AnalyzerLanguageName(language) ==
    IF language \in {"python", "java", "javascript", "typescript"}
    THEN language ELSE None

\* The caller's first request.
AnalyzerInit ==
    \/ \E l \in AnalyzerIds :
           reg = [RegIdle EXCEPT !.pc[1] = "get_analyzer", !.lang[1] = l]
    \/ \E l \in LangIds :
           reg = [RegIdle EXCEPT !.pc[1] = "test", !.lang[1] = l]

\* get_analyzer line 17: return None
GetAnalyzerNone(t) ==
    /\ reg.pc[t] = "get_analyzer"
    /\ AnalyzerLanguageName(reg.lang[t]) = None
    /\ reg' = [reg EXCEPT !.pc[t] = "none", !.calls[t] = reg.calls[t] + 1]
    /\ UNCHANGED <<norm, py, java, node, scan>>

\* get_analyzer lines 9-16 and BaseAnalyzer.__init__ up to its call of
\* get_ts_language(self.language_name).
GetAnalyzerConstruct(t) ==
    /\ reg.pc[t] = "get_analyzer"
    /\ AnalyzerLanguageName(reg.lang[t]) # None
    /\ reg' = [reg EXCEPT !.pc[t] = "test",
                          !.lang[t] = AnalyzerLanguageName(reg.lang[t])]
    /\ UNCHANGED <<norm, py, java, node, scan>>

\* The caller goes on to its next file through get_analyzer.
AnalyzerNextFile(t) ==
    /\ reg.pc[t] \in {"returned", "raised", "none"}
    /\ reg.calls[t] < MaxRequests
    /\ \E l \in AnalyzerIds :
           reg' = [reg EXCEPT !.pc[t] = "get_analyzer", !.lang[t] = l,
                              !.grammar[t] = 0]
    /\ UNCHANGED <<norm, py, java, node, scan>>

\* The caller goes on with a call of get_ts_language.
AnalyzerNextCall(t) ==
    /\ reg.pc[t] \in {"returned", "raised", "none"}
    /\ reg.calls[t] < MaxRequests
    /\ \E l \in LangIds :
           reg' = [reg EXCEPT !.pc[t] = "test", !.lang[t] = l, !.grammar[t] = 0]
    /\ UNCHANGED <<norm, py, java, node, scan>>

AnalyzerStep ==
    \/ GetAnalyzerNone(1)
    \/ GetAnalyzerConstruct(1)
    \/ RegTest(1)
    \/ RegGetLanguage(1)
    \/ RegGetLanguageRaises(1)
    \/ RegStore(1)
    \/ RegReturn(1)
    \/ AnalyzerNextFile(1)
    \/ AnalyzerNextCall(1)

(***************************************************************************)
(* The Python analyzer (parsers/python.py).                                *)
(*                                                                         *)
(* A syntax tree is given by what the analyzer reads of it: the decorators *)
(* the route query matches, the types of the decorator's parent and        *)
(* grandparent, and the function definition concerned.  In the trees the   *)
(* tree-sitter Python grammar builds for well-formed source a decorator is *)
(* a child of a decorated_definition node, whose other child is the        *)
(* function_definition and whose parent is the module or a block.  With    *)
(* error recovery a decorator can hang under an ERROR node, at the top     *)
(* level or inside an enclosing function_definition.                       *)
(***************************************************************************)

\* Decorators on the one function of a tree.
MaxDecorators == 2

DQ == "\""
SQ == "'"

\* The path literals of the decorators, quotes included: "/items/{id}" and '/x'.
ItemsIdLiteral == <<DQ, "/", "i", "t", "e", "m", "s", "/", "{", "i", "d", "}", DQ>>
XLiteral == <<SQ, "/", "x", SQ>>
ItemsId == <<"/", "i", "t", "e", "m", "s", "/", "{", "i", "d", "}">>

PyVerbs == {"get", "post"}

\* str.upper() on the attribute names the inputs use.
Upper(text) ==
    CASE text = "get" -> "GET"
      [] text = "post" -> "POST"
      [] text = "put" -> "PUT"
      [] text = "delete" -> "DELETE"
      [] text = "patch" -> "PATCH"
      [] text = "route" -> "ROUTE"
      [] text = "use" -> "USE"
      [] text = "getUser" -> "GETUSER"
      [] text = "listen" -> "LISTEN"
      [] OTHER -> text

PyDecorators == [method : PyVerbs, path : {ItemsIdLiteral, XLiteral}]

\* Where the decorators hang: <<type of the parent, type of the grandparent>>.
PyShapes ==
    {<<"decorated_definition", "module">>,
     <<"decorated_definition", "block">>,
     <<"ERROR", "module">>,
     <<"ERROR", "function_definition">>}

\* The trees the grammar builds for source without syntax errors.
PyWellFormed(tree) == tree.parent_type = "decorated_definition"

RECURSIVE SeqsUpTo(_, _)
SeqsUpTo(S, n) ==
    IF n = 0 THEN {<<>>}
    ELSE LET shorter == SeqsUpTo(S, n - 1)
         IN  shorter \cup {Append(t, c) : t \in {u \in shorter : Len(u) = n - 1},
                                          c \in S}

\* fn is the function definition: the decorated one (the sibling of the
\* decorators) in a well-formed tree, the enclosing one under an ERROR node.
\* fn.name is None when the definition has no name child.
PyTrees ==
    {[decorators |-> ds, parent_type |-> sh[1], grandparent_type |-> sh[2],
      fn |-> [name |-> nm, line |-> 3]] :
        ds \in SeqsUpTo(PyDecorators, MaxDecorators) \ {<<>>},
        sh \in PyShapes,
        nm \in {None, "read_item"}}

\* The captures of the route query in the order tree-sitter reports them:
\* match by match, and within a match in the order of the pattern's captures.
\* Each capture is given by the decorator it lies in (lines 56-58 walk up to
\* it) and its capture name.
PyCaptureNames == <<"decorator_node", "app", "method", "path">>

PyCaptures(tree) ==
    [k \in 1..(4 * Len(tree.decorators)) |->
        [decorator |-> ((k - 1) \div 4) + 1,
         name |-> PyCaptureNames[((k - 1) % 4) + 1]]]

\* lines 62-67: the function definition the decorator belongs to, None when
\* neither the parent nor the grandparent is one.
PyEndpointNode(tree) ==
    IF tree.parent_type = "function_definition" THEN "parent"
    ELSE IF tree.grandparent_type = "function_definition" THEN "grandparent"
    ELSE None

\* The key under which an Endpoint is kept in endpoints_map (lines 77-90).
PyMapKey(handler_name, decorator) == handler_name

\* Position of key in the map's insertion order, 0 when absent.
PyMapIndex(endpoints_map, key) ==
    IF \E i \in 1..Len(endpoints_map) : endpoints_map[i].key = key
    THEN CHOOSE i \in 1..Len(endpoints_map) : endpoints_map[i].key = key
    ELSE 0

\* lines 92-103: the replay of the query; the captures lying in the
\* decorator set the Endpoint's http_method and path, in capture order.
RECURSIVE PyApplyLocal(_, _, _, _)
PyApplyLocal(endpoint, tree, captures, decorator) ==
    IF captures = <<>> THEN endpoint
    ELSE LET c == Head(captures)
             d == tree.decorators[c.decorator]
             e == IF c.decorator # decorator THEN endpoint
                  ELSE IF c.name = "method"
                       THEN [endpoint EXCEPT !.http_method = Upper(d.method)]
                  ELSE IF c.name = "path"
                       THEN [endpoint EXCEPT !.path = Strip(d.path, {SQ, DQ})]
                  ELSE endpoint
         IN  PyApplyLocal(e, tree, Tail(captures), decorator)

\* lines 77-103 for one decorator of a function with a name.
PyRecord(endpoints_map, tree, decorator) ==
    LET key == PyMapKey(tree.fn.name, decorator)
        fresh == [key |-> key,
                  file_path |-> <<>>,
                  handler_name |-> tree.fn.name,
                  http_method |-> "",
                  path |-> <<>>,
                  line_number |-> tree.fn.line,
                  auth_mechanisms |-> <<>>]
        m == IF PyMapIndex(endpoints_map, key) = 0
             THEN Append(endpoints_map, fresh) ELSE endpoints_map
        i == PyMapIndex(m, key)
    IN  [m EXCEPT ![i] = PyApplyLocal(m[i], tree, PyCaptures(tree), decorator)]

PyIdle ==
    [pc |-> "idle", tree |-> None, captures |-> <<>>, endpoints_map |-> <<>>,
     processed_nodes |-> {}, result |-> <<>>]

PyInit ==
    py \in {[pc |-> "loop", tree |-> t, captures |-> PyCaptures(t),
             endpoints_map |-> <<>>, processed_nodes |-> {}, result |-> <<>>] :
                t \in PyTrees}

\* One iteration of the loop of lines 55-103.
PyCapture ==
    /\ py.pc = "loop"
    /\ py.captures # <<>>
    /\ LET c == Head(py.captures)
           found == PyEndpointNode(py.tree) # None
           skip == c.decorator \in py.processed_nodes \/ ~found
       IN  py' = [py EXCEPT
                    !.captures = Tail(py.captures),
                    !.processed_nodes =
                        IF skip THEN @ ELSE @ \cup {c.decorator},
                    !.endpoints_map =
                        IF skip \/ py.tree.fn.name = None THEN @
                        ELSE PyRecord(@, py.tree, c.decorator)]
    /\ UNCHANGED <<norm, java, node, scan, reg>>

\* line 105: return list(endpoints_map.values())
PyReturn ==
    /\ py.pc = "loop"
    /\ py.captures = <<>>
    /\ py' = [py EXCEPT !.pc = "done", !.result = py.endpoints_map]
    /\ UNCHANGED <<norm, java, node, scan, reg>>

PyNext == PyCapture \/ PyReturn


(***************************************************************************)
(* The Java analyzer (parsers/java.py).                                    *)
(*                                                                         *)
(* A file is a sequence of class declarations in document order; a class   *)
(* names the class it is nested in (parent, 0 for a top-level class), its  *)
(* annotations and the methods declared directly in its body.  An          *)
(* annotation is a marker_annotation (args = FALSE) or an annotation with  *)
(* an argument list, whose string_literal nodes are given by their source  *)
(* text, quotes included.                                                  *)
(***************************************************************************)

\* String literals in one annotation, and annotations on one method.
MaxLits == 2
MaxAnnots == 2

\* A byte that is not valid UTF-8, as a source file in another encoding holds.
BadByte == "0xFF"

Letters == <<"a", "b", "c", "d", "e", "f">>

\* The k-th path literal of the inputs: "/a", "/b", ...
Lit(k) == <<DQ, Slash, Letters[k], DQ>>

ApiLiteral == <<DQ, "/", "a", "p", "i", DQ>>
BadLiteral == <<DQ, "/", BadByte, DQ>>

\* bytes.decode("utf-8"): raises UnicodeDecodeError on an invalid byte.
DecodeRaises(text) == \E i \in 1..Len(text) : text[i] = BadByte

\* _collect_string_literals: every literal under the node, decoded and with
\* its double quotes stripped; args_node None gives no literal.
CollectRaises(annot) ==
    annot.args /\ \E i \in 1..Len(annot.literals) : DecodeRaises(annot.literals[i])

CollectStringLiterals(annot) ==
    IF annot.args
    THEN [i \in 1..Len(annot.literals) |-> Strip(annot.literals[i], {DQ})]
    ELSE <<>>

Marker(name) == [name |-> name, args |-> FALSE, literals |-> <<>>]
Annotation(name, literals) == [name |-> name, args |-> TRUE, literals |-> literals]

\* The annotations a method of the inputs carries.
MethodAnnotPool ==
    {Annotation("GetMapping", [i \in 1..n |-> Lit(i)]) : n \in 0..MaxLits}
    \cup {Annotation("GetMapping", <<BadLiteral>>),
          Annotation("RequestMapping", <<Lit(1)>>),
          Annotation("Path", <<Lit(2)>>),
          Marker("POST"),
          Marker("GetMapping"),
          Annotation("PreAuthorize", <<Lit(1)>>),
          Marker("RolesAllowed")}

\* models.APIParameter
Parameter(name, param_type, data_type, required) ==
    [name |-> name, param_type |-> param_type, data_type |-> data_type,
     required |-> required]

\* Formal parameters of a method, and @Parameter annotations on it.
MaxParams == 2
MaxSwagger == 2

\* The annotations a formal parameter of the inputs carries, by name and in
\* source order.
ParamAnnotPool ==
    {<<>>, <<"PathVariable">>, <<"PathParam">>, <<"RequestParam">>, <<"QueryParam">>,
     <<"RequestHeader">>, <<"HeaderParam">>, <<"CookieValue">>, <<"CookieParam">>,
     <<"Valid">>, <<"Valid", "PathVariable">>, <<"PathVariable", "Valid">>}

\* The types of the formal parameters of the inputs: the node type of the
\* type child and its text.
ParamTypePool ==
    {[type |-> "type_identifier", text |-> "String"],
     [type |-> "integral_type", text |-> "int"],
     [type |-> "generic_type", text |-> "List<String>"],
     [type |-> "array_type", text |-> "String[]"]}

\* A formal parameter: annotated parameters of class type, and parameters of
\* every type with no annotation or with @PathVariable.
FormalParamPool ==
    {[annots |-> as, type |-> "type_identifier", text |-> "String"] :
         as \in ParamAnnotPool}
    \cup {[annots |-> as, type |-> t.type, text |-> t.text] :
              as \in {<<>>, <<"PathVariable">>}, t \in ParamTypePool}

\* The name of the k-th formal parameter of a method.
ParamName(k) == <<"p1", "p2", "p3", "p4">>[k]

\* A method declaration: name is None when it has no name child, modifiers
\* is FALSE when it has no modifiers child (no annotation and no keyword),
\* params are its formal parameters.
JavaMethods ==
    {[name |-> "list", modifiers |-> TRUE, annots |-> as, line |-> 7,
      params |-> <<>>] :
         as \in SeqsUpTo(MethodAnnotPool, MaxAnnots)}
    \cup {[name |-> None, modifiers |-> TRUE,
           annots |-> <<Annotation("GetMapping", <<Lit(1)>>)>>, line |-> 7,
           params |-> <<>>],
          [name |-> "list", modifiers |-> FALSE, annots |-> <<>>, line |-> 7,
           params |-> <<>>]}

\* Methods carrying each annotation of the verb map, alone and on either
\* side of a @RequestMapping.
JavaVerbMethods ==
    {[name |-> "list", modifiers |-> TRUE, annots |-> as, line |-> 7,
      params |-> <<>>] :
         as \in UNION {{<<Marker(n)>>,
                        <<Marker(n), Annotation("RequestMapping", <<Lit(1)>>)>>,
                        <<Annotation("RequestMapping", <<Lit(1)>>), Marker(n)>>} :
                           n \in {"GetMapping", "PostMapping", "PutMapping",
                                  "DeleteMapping", "PatchMapping", "RequestMapping",
                                  "GET", "POST", "PUT", "DELETE", "PATCH"}}}

\* Endpoint methods with formal parameters and with @Parameter annotations.
JavaParamMethods ==
    {[name |-> "list", modifiers |-> TRUE,
      annots |-> <<Annotation("GetMapping", <<Lit(1)>>)>>
                     \o [i \in 1..k |-> Annotation("Parameter", <<>>)],
      line |-> 7, params |-> ps] :
         k \in 0..MaxSwagger, ps \in SeqsUpTo(FormalParamPool, MaxParams)}

\* The annotations on the class that declares the method.
OwnerClassAnnots ==
    {<<>>,
     <<Annotation("RequestMapping", <<ApiLiteral>>)>>,
     <<Annotation("PreAuthorize", <<Lit(1)>>)>>,
     <<Annotation("RequestMapping", <<ApiLiteral>>), Marker("RolesAllowed")>>,
     <<Annotation("RequestMapping", <<BadLiteral>>)>>,
     <<Annotation("RequestMapping", <<>>), Annotation("Path", <<Lit(2)>>)>>,
     <<Marker("RequestMapping"), Annotation("Path", <<Lit(2)>>)>>}

\* The annotations on an outer class the declaring class is nested in.
OuterClassAnnots ==
    {<<>>,
     <<Annotation("RequestMapping", <<Lit(3)>>), Marker("PreAuthorize")>>}

Class(parent, annots, methods) ==
    [parent |-> parent, annots |-> annots, methods |-> methods]

\* One top-level class with one method, or that class nested in an outer one.
JavaFiles ==
    {<<Class(0, ca, <<m>>)>> : ca \in OwnerClassAnnots, m \in JavaMethods}
    \cup {<<Class(0, <<>>, <<m>>)>> : m \in JavaParamMethods \cup JavaVerbMethods}
    \cup {<<Class(0, oa, <<>>), Class(1, ca, <<m>>)>> :
              oa \in OuterClassAnnots, ca \in OwnerClassAnnots, m \in JavaMethods}

\* The auth vocabulary met in the inputs, and the orders in which a Python
\* set of these names can be iterated: the order depends on the string
\* hashes, which CPython draws anew for every process.
AuthInputs == {"PreAuthorize", "RolesAllowed"}
HashOrders == {<<"PreAuthorize", "RolesAllowed">>, <<"RolesAllowed", "PreAuthorize">>}

\* list(set(names)) under one hash order.
RECURSIVE ListOfSet(_, _)
ListOfSet(names, order) ==
    IF order = <<>> THEN <<>>
    ELSE (IF Head(order) \in names THEN <<Head(order)>> ELSE <<>>)
             \o ListOfSet(names, Tail(order))

Range(f) == {f[i] : i \in DOMAIN f}

\* lines 359-362
auth_names ==
    {"PreAuthorize", "RolesAllowed", "Secured", "PermitAll", "DenyAll",
     "SecurityRequirement", "SecurityRequirements", "PermissionRequired"}

\* _find_auth_annotations on the modifiers holding annots.
FindAuthAnnotations(annots, order) ==
    ListOfSet({annots[i].name : i \in DOMAIN annots} \cap auth_names, order)

\* The captures of an annotation query over a modifiers node, annotation by
\* annotation: the annotation node, its name, and its argument list if any.
\* Each capture is given by the annotation it lies in (the walk of lines
\* 86-88 and 177-179 ends there) and its capture name.
RECURSIVE AnnotCaptures(_, _, _, _)
AnnotCaptures(annots, k, name_label, args_label) ==
    IF k > Len(annots) THEN <<>>
    ELSE <<[annot |-> k, name |-> "annotation_node"],
           [annot |-> k, name |-> name_label]>>
         \o (IF annots[k].args THEN <<[annot |-> k, name |-> args_label]>> ELSE <<>>)
         \o AnnotCaptures(annots, k + 1, name_label, args_label)

\* annot_nodes.setdefault(start_byte, {})[name] = node over the captures: a
\* dict in insertion order, here a sequence of [key, labels].
RECURSIVE GroupCaptures(_, _)
GroupCaptures(captures, groups) ==
    IF captures = <<>> THEN groups
    ELSE LET c == Head(captures)
             at == {i \in 1..Len(groups) : groups[i].key = c.annot}
             g == IF at = {}
                  THEN Append(groups, [key |-> c.annot, labels |-> {c.name}])
                  ELSE [groups EXCEPT ![CHOOSE i \in at : TRUE].labels = @ \cup {c.name}]
         IN  GroupCaptures(Tail(captures), g)

\* _find_class_base_path, lines 92-99: the first RequestMapping/Path group
\* that has an argument list decides.
RECURSIVE BasePathScan(_, _)
BasePathScan(annots, groups) ==
    IF groups = <<>> THEN [raised |-> FALSE, value |-> <<>>]
    ELSE LET g == Head(groups)
             a == annots[g.key]
         IN  IF /\ "anno_name" \in g.labels
                /\ a.name \in {"RequestMapping", "Path"}
                /\ "args" \in g.labels
             THEN IF CollectRaises(a) THEN [raised |-> TRUE, value |-> <<>>]
                  ELSE LET literals == CollectStringLiterals(a)
                       IN  [raised |-> FALSE,
                            value |-> IF literals # <<>> THEN literals[1] ELSE <<>>]
             ELSE BasePathScan(annots, Tail(groups))

FindClassBasePath(cls) ==
    BasePathScan(cls.annots,
                 GroupCaptures(AnnotCaptures(cls.annots, 1, "anno_name", "args"), <<>>))

\* lines 132-136
method_mappings ==
    [GetMapping |-> "GET", PostMapping |-> "POST", PutMapping |-> "PUT",
     DeleteMapping |-> "DELETE", PatchMapping |-> "PATCH", RequestMapping |-> "ANY",
     GET |-> "GET", POST |-> "POST", PUT |-> "PUT", DELETE |-> "DELETE",
     PATCH |-> "PATCH"]

\* lines 138-141
path_annotations ==
    {"RequestMapping", "GetMapping", "PostMapping", "PutMapping",
     "DeleteMapping", "PatchMapping", "Path"}

\* A scan in which every annotation of the verb map sets the method type.
RECURSIVE ScanAnnotationsLastSets(_, _, _)
ScanAnnotationsLastSets(annots, groups, acc) ==
    IF groups = <<>> THEN acc
    ELSE LET g == Head(groups)
             a == annots[g.key]
             mapped == a.name \in {"GetMapping", "PostMapping", "PutMapping",
                                   "DeleteMapping", "PatchMapping", "RequestMapping",
                                   "GET", "POST", "PUT", "DELETE", "PATCH"}
             next ==
                 IF "method_annotation" \notin g.labels THEN acc
                 ELSE [annot_list |->
                           Append(acc.annot_list,
                                  [a EXCEPT !.args = "annotation_args" \in g.labels]),
                       has_endpoint_annotation |->
                           IF acc.has_endpoint_annotation THEN TRUE
                           ELSE IF mapped THEN TRUE
                           ELSE a.name \in {"RequestMapping", "GetMapping", "PostMapping",
                                            "PutMapping", "DeleteMapping",
                                            "PatchMapping", "Path"},
                       method_type |->
                           IF ~mapped THEN acc.method_type
                           ELSE IF a.name = "RequestMapping" THEN "ANY"
                           ELSE IF a.name \in {"GetMapping", "GET"} THEN "GET"
                           ELSE IF a.name \in {"PostMapping", "POST"} THEN "POST"
                           ELSE IF a.name \in {"PutMapping", "PUT"} THEN "PUT"
                           ELSE IF a.name \in {"DeleteMapping", "DELETE"} THEN "DELETE"
                           ELSE "PATCH"]
         IN  ScanAnnotationsLastSets(annots, Tail(groups), next)

\* lines 183-202: annot_list, method_type and has_endpoint_annotation.
RECURSIVE ScanAnnotations(_, _, _)
ScanAnnotations(annots, groups, acc) ==
    IF groups = <<>> THEN acc
    ELSE LET g == Head(groups)
             a == annots[g.key]
             mapped == a.name \in DOMAIN method_mappings
             new_method == IF mapped THEN method_mappings[a.name] ELSE "ANY"
             next ==
                 IF "method_annotation" \notin g.labels THEN acc
                 ELSE [annot_list |->
                           Append(acc.annot_list,
                                  [a EXCEPT !.args = "annotation_args" \in g.labels]),
                       has_endpoint_annotation |->
                           \/ acc.has_endpoint_annotation
                           \/ a.name \in path_annotations
                           \/ mapped,
                       method_type |->
                           IF mapped /\ new_method # "ANY" THEN new_method
                           ELSE acc.method_type]
         IN  ScanAnnotations(annots, Tail(groups), next)

\* A collection that never stops at a Path annotation.
RECURSIVE CollectPathsAll(_, _)
CollectPathsAll(annot_list, method_type) ==
    IF annot_list = <<>> THEN [raised |-> FALSE, paths |-> <<>>]
    ELSE LET a == Head(annot_list)
             rest == CollectPathsAll(Tail(annot_list), method_type)
         IN  IF a.name \notin path_annotations THEN rest
             ELSE IF CollectRaises(a) THEN [raised |-> TRUE, paths |-> <<>>]
             ELSE [raised |-> rest.raised,
                   paths |-> CollectStringLiterals(a) \o rest.paths]

\* lines 207-217 without the default: the literals of the path annotations
\* of annot_list, up to a Path annotation met with a concrete verb.
RECURSIVE CollectPaths(_, _)
CollectPaths(annot_list, method_type) ==
    IF annot_list = <<>> THEN [raised |-> FALSE, paths |-> <<>>]
    ELSE LET a == Head(annot_list)
         IN  IF a.name \notin path_annotations
             THEN CollectPaths(Tail(annot_list), method_type)
             ELSE IF CollectRaises(a) THEN [raised |-> TRUE, paths |-> <<>>]
             ELSE IF a.name = "Path" /\ method_type # "ANY"
                  THEN [raised |-> FALSE, paths |-> CollectStringLiterals(a)]
             ELSE LET rest == CollectPaths(Tail(annot_list), method_type)
                  IN  [raised |-> rest.raised,
                       paths |-> CollectStringLiterals(a) \o rest.paths]

\* list(set(class_auth + method_auth)), line 220
AllAuth(class_auth, method_auth, order) ==
    ListOfSet(Range(class_auth) \cup Range(method_auth), order)

\* The captures of the parameter query (lines 258-277) over the formal
\* parameters from the k-th on.  The query asks for a type child of type
\* type_identifier; a matching parameter gives one match per annotation, or
\* one match without annotation.  Each capture is given by the parameter
\* the walk of lines 280-282 ends at, its capture name and its text.
RECURSIVE ParamCaptures(_, _)
ParamCaptures(params, k) ==
    IF k > Len(params) THEN <<>>
    ELSE LET q == params[k]
             typeAndName == <<[param |-> k, name |-> "param_type", text |-> q.text],
                              [param |-> k, name |-> "param_name", text |-> ParamName(k)]>>
         IN  (IF q.type # "type_identifier" THEN <<>>
              ELSE [i \in 1..Len(q.annots) |->
                       [param |-> k, name |-> "param_annotation", text |-> q.annots[i]]]
                   \o typeAndName)
             \o ParamCaptures(params, k + 1)

\* lines 278-284: param_nodes, a dict in insertion order; a capture name
\* already present in a parameter's entry is overwritten.
RECURSIVE ParamGroup(_, _)
ParamGroup(captures, groups) ==
    IF captures = <<>> THEN groups
    ELSE LET c == Head(captures)
             at == {i \in 1..Len(groups) : groups[i].key = c.param}
             g == IF at = {}
                  THEN Append(groups, [key |-> c.param, data |-> {<<c.name, c.text>>}])
                  ELSE [groups EXCEPT ![CHOOSE i \in at : TRUE].data =
                           {d \in @ : d[1] # c.name} \cup {<<c.name, c.text>>}]
         IN  ParamGroup(Tail(captures), g)

\* data.get(label), "" when the label is absent.
DataText(data, label) ==
    IF \E d \in data : d[1] = label
    THEN (CHOOSE d \in data : d[1] = label)[2]
    ELSE ""

\* lines 291-300
JavaParamType(annotation) ==
    IF annotation \in {"PathVariable", "PathParam"} THEN "path"
    ELSE IF annotation \in {"RequestParam", "QueryParam"} THEN "query"
    ELSE IF annotation \in {"RequestHeader", "HeaderParam"} THEN "header"
    ELSE IF annotation \in {"CookieValue", "CookieParam"} THEN "cookie"
    ELSE "body"

\* lines 286-307: one Parameter per entry of param_nodes that has a name and
\* a type.
RECURSIVE FormalParameters(_)
FormalParameters(groups) ==
    IF groups = <<>> THEN <<>>
    ELSE LET data == Head(groups).data
             labels == {d[1] : d \in data}
         IN  (IF "param_name" \notin labels \/ "param_type" \notin labels THEN <<>>
              ELSE <<Parameter(DataText(data, "param_name"),
                               JavaParamType(DataText(data, "param_annotation")),
                               DataText(data, "param_type"), TRUE)>>)
             \o FormalParameters(Tail(groups))

\* lines 309-329: one swagger_param per annotation named Parameter in the
\* method's modifiers.
RECURSIVE SwaggerParameters(_)
SwaggerParameters(annots) ==
    IF annots = <<>> THEN <<>>
    ELSE (IF Head(annots).name = "Parameter"
          THEN <<Parameter("swagger_param", "query", "", FALSE)>>
          ELSE <<>>)
         \o SwaggerParameters(Tail(annots))

\* _parse_java_parameters
ParseJavaParameters(method) ==
    FormalParameters(ParamGroup(ParamCaptures(method.params, 1), <<>>))
        \o SwaggerParameters(method.annots)

\* lines 162-235 for one method_declaration captured in the class body.
MethodEndpoints(method, base_path, class_auth, order) ==
    IF ~method.modifiers \/ method.name = None
    THEN [raised |-> FALSE, endpoints |-> <<>>]
    ELSE
    LET groups == GroupCaptures(AnnotCaptures(method.annots, 1, "method_annotation",
                                              "annotation_args"), <<>>)
        scanned == ScanAnnotations(method.annots, groups,
                       [annot_list |-> <<>>, has_endpoint_annotation |-> FALSE,
                        method_type |-> "ANY"])
        collected == CollectPaths(scanned.annot_list, scanned.method_type)
        paths == IF collected.paths = <<>> THEN << <<>> >> ELSE collected.paths
        all_auth == AllAuth(class_auth, FindAuthAnnotations(method.annots, order), order)
    IN  IF ~scanned.has_endpoint_annotation
        THEN [raised |-> FALSE, endpoints |-> <<>>]
        ELSE IF collected.raised THEN [raised |-> TRUE, endpoints |-> <<>>]
        ELSE [raised |-> FALSE,
              endpoints |->
                  [i \in 1..Len(paths) |->
                      [file_path |-> <<>>,
                       handler_name |-> method.name,
                       http_method |-> scanned.method_type,
                       path |-> FullPath(base_path, paths[i]),
                       line_number |-> method.line,
                       parameters |-> ParseJavaParameters(method),
                       auth_mechanisms |-> all_auth]]]

\* Whether class d is class c or nested, at any depth, in class c.
RECURSIVE Within(_, _, _)
Within(file, d, c) ==
    IF d = c THEN TRUE
    ELSE IF file[d].parent = 0 THEN FALSE
    ELSE Within(file, file[d].parent, c)

\* The method declarations the method query captures in the body of class
\* c (line 160): those of c and of every class nested in it.
RECURSIVE SeqConcat(_)
SeqConcat(ss) == IF ss = <<>> THEN <<>> ELSE Head(ss) \o SeqConcat(Tail(ss))

MethodCaptures(file, c) ==
    SeqConcat([d \in 1..Len(file) |->
                  IF Within(file, d, c) THEN file[d].methods ELSE <<>>])

\* _find_methods: the loop of line 162 over the captured methods.
RECURSIVE FindMethods(_, _, _, _)
FindMethods(methods, base_path, class_auth, order) ==
    IF methods = <<>> THEN [raised |-> FALSE, endpoints |-> <<>>]
    ELSE LET first == MethodEndpoints(Head(methods), base_path, class_auth, order)
             rest == FindMethods(Tail(methods), base_path, class_auth, order)
         IN  IF first.raised \/ rest.raised
             THEN [raised |-> TRUE, endpoints |-> <<>>]
             ELSE [raised |-> FALSE, endpoints |-> first.endpoints \o rest.endpoints]

\* lines 49-54 for one class: base path, class auth, then its methods.
ClassEndpoints(file, c, order) ==
    LET base == FindClassBasePath(file[c])
        class_auth == FindAuthAnnotations(file[c].annots, order)
    IN  IF base.raised THEN [raised |-> TRUE, endpoints |-> <<>>]
        ELSE FindMethods(MethodCaptures(file, c), base.value, class_auth, order)

JavaIdle ==
    [pc |-> "idle", file |-> <<>>, class |-> 0, endpoints |-> <<>>,
     result |-> <<>>, order |-> <<>>, run |-> 0, first |-> <<>>]

JavaInit ==
    java \in {[pc |-> "loop", file |-> f, class |-> 1, endpoints |-> <<>>,
               result |-> <<>>, order |-> o, run |-> 1, first |-> <<>>] :
                  f \in JavaFiles, o \in HashOrders}

\* One iteration of the loop of lines 45-54 that completes.
JavaClass ==
    /\ java.pc = "loop"
    /\ java.class <= Len(java.file)
    /\ LET found == ClassEndpoints(java.file, java.class, java.order)
       IN  /\ ~found.raised
           /\ java' = [java EXCEPT !.class = @ + 1,
                                   !.endpoints = @ \o found.endpoints]
    /\ UNCHANGED <<norm, py, node, scan, reg>>

\* One iteration of the loop of lines 45-54 in which line 114 raises
\* UnicodeDecodeError, which nothing in the analyzer catches.
JavaClassRaises ==
    /\ java.pc = "loop"
    /\ java.class <= Len(java.file)
    /\ ClassEndpoints(java.file, java.class, java.order).raised
    /\ java' = [java EXCEPT !.pc = "raised"]
    /\ UNCHANGED <<norm, py, node, scan, reg>>

\* line 55: return endpoints
JavaReturn ==
    /\ java.pc = "loop"
    /\ java.class > Len(java.file)
    /\ java' = [java EXCEPT !.pc = "done", !.result = java.endpoints]
    /\ UNCHANGED <<norm, py, node, scan, reg>>

\* The same bytes are analyzed a second time, by a new process (another run
\* of the command), whose string hashes are drawn anew.
JavaAgain ==
    /\ java.pc = "done"
    /\ java.run = 1
    /\ \E o \in HashOrders :
           java' = [java EXCEPT !.pc = "loop", !.class = 1, !.endpoints = <<>>,
                                !.result = <<>>, !.order = o, !.run = 2,
                                !.first = java.result]
    /\ UNCHANGED <<norm, py, node, scan, reg>>

JavaNext == JavaClass \/ JavaClassRaises \/ JavaReturn \/ JavaAgain

(***************************************************************************)
(* The Node.js analyzer (parsers/nodejs.py).                               *)
(*                                                                         *)
(* A file is the sequence, in document order, of its call expressions of   *)
(* the shape the route query asks for, identifier.property(arguments); the *)
(* predicates of the query select among them.  A call gives the texts of   *)
(* its receiver and property, its named arguments, its line, and the call  *)
(* whose handler body it lies in (within, 0 at the top level).  An         *)
(* argument gives its node type, its source text, its line and, for a      *)
(* function literal, what its body holds: the names read as                *)
(* req.query.<name> and whether req.body is read.                          *)
(***************************************************************************)

UsersIdLiteral == <<SQ, "/", "u", "s", "e", "r", "s", "/", ":", "i", "d", SQ>>
UsersId == <<"/", "u", "s", "e", "r", "s", "/", ":", "i", "d">>
ALiteral == <<SQ, "/", "a", SQ>>
\* The backtick character.
BQ == "backtick"

IdText == <<"i", "d">>
SortText == <<"s", "o", "r", "t">>
BodyText == <<"b", "o", "d", "y">>

NoBody == [query_names |-> <<>>, req_body |-> FALSE]

\* The value None of handler_node, in the shape of an argument.
NoHandler == [type |-> None, text |-> <<>>, line |-> 0, body |-> NoBody]

NodeBodies == [query_names : {<<>>, <<SortText>>}, req_body : BOOLEAN]

StringArg(text) == [type |-> "string", text |-> text, line |-> 1, body |-> NoBody]
IdentifierArg(name) == [type |-> "identifier", text |-> name, line |-> 1, body |-> NoBody]
FunctionArg(type, line, body) == [type |-> type, text |-> <<>>, line |-> line, body |-> body]

\* A handler given as controller.method.
MemberArg == [type |-> "member_expression", text |-> <<>>, line |-> 1, body |-> NoBody]

\* The handler arguments of the inputs: none, a reference, a member
\* expression, an inline function.
NodeHandlerArgs ==
    {<<>>, <<IdentifierArg(<<"h">>)>>, <<MemberArg>>}
    \cup {<<FunctionArg("arrow_function", l, b)>> : l \in {1, 2}, b \in NodeBodies}

EmptyLiteral == <<SQ, SQ>>
IdIdLiteral == <<SQ, "/", ":", "i", "d", "/", ":", "i", "d", SQ>>

\* The path arguments of the inputs: none, /users/:id, /a, the empty
\* string, /:id/:id, and /a followed by /users/:id.
NodePathArgs ==
    {<<>>, <<StringArg(UsersIdLiteral)>>, <<StringArg(ALiteral)>>,
     <<StringArg(EmptyLiteral)>>, <<StringArg(IdIdLiteral)>>,
     <<StringArg(ALiteral), StringArg(UsersIdLiteral)>>}

\* An object literal given as an argument.
ObjectArg == [type |-> "object", text |-> <<>>, line |-> 1, body |-> NoBody]

\* Argument lists with several handler candidates: a middleware reference
\* before an inline function, an inline function before a reference, and a
\* reference followed by an options object.
NodeHandlerLists ==
    {<<IdentifierArg(<<"a", "u", "t", "h">>), FunctionArg("arrow_function", 2, NoBody)>>,
     <<FunctionArg("function_expression", 1, NoBody), IdentifierArg(<<"h">>)>>,
     <<IdentifierArg(<<"h">>), ObjectArg>>,
     <<IdentifierArg(<<"a", "u", "t", "h">>), IdentifierArg(<<"h">>)>>}

NodeCalls ==
    {[obj |-> o, method |-> m, args |-> pa \o ha, line |-> 1, within |-> 0] :
         o \in {"app", "router"}, m \in {"get", "post", "use"},
         pa \in NodePathArgs, ha \in NodeHandlerArgs}
    \cup {[obj |-> o, method |-> m,
           args |-> <<StringArg(ALiteral), IdentifierArg(<<"h">>)>>,
           line |-> 1, within |-> 0] :
              o \in {"app", "myapp", "server"}, m \in {"get", "getUser", "listen"}}
    \cup {[obj |-> "app", method |-> "get", args |-> <<StringArg(ALiteral)>> \o ha,
           line |-> 1, within |-> 0] : ha \in NodeHandlerLists}

\* The characters of the receiver and property names of the inputs and of
\* the words of the query's patterns.
NameChars(name) ==
    CASE name = "app" -> <<"a", "p", "p">>
      [] name = "router" -> <<"r", "o", "u", "t", "e", "r">>
      [] name = "myapp" -> <<"m", "y", "a", "p", "p">>
      [] name = "server" -> <<"s", "e", "r", "v", "e", "r">>
      [] name = "get" -> <<"g", "e", "t">>
      [] name = "post" -> <<"p", "o", "s", "t">>
      [] name = "put" -> <<"p", "u", "t">>
      [] name = "delete" -> <<"d", "e", "l", "e", "t", "e">>
      [] name = "patch" -> <<"p", "a", "t", "c", "h">>
      [] name = "use" -> <<"u", "s", "e">>
      [] name = "getUser" -> <<"g", "e", "t", "U", "s", "e", "r">>
      [] name = "listen" -> <<"l", "i", "s", "t", "e", "n">>

\* Whether word occurs in text.
Contains(text, word) ==
    \E i \in 0..(Len(text) - Len(word)) : SubSeq(text, i + 1, i + Len(word)) = word

\* #match? with a pattern "w1|w2|...": a search, anywhere in the text, for
\* one of the words.
Match(text, words) ==
    \E w \in words : Contains(NameChars(text), NameChars(w))

\* lines 43-44: the predicates of the route query.
RouteQueryMatches(call) ==
    /\ Match(call.obj, {"app", "router"})
    /\ Match(call.method, {"get", "post", "put", "delete", "patch", "use"})

\* A route registered inside the handler body of the first call.
NestedCall ==
    [obj |-> "router", method |-> "post",
     args |-> <<StringArg(ALiteral), IdentifierArg(<<"h">>)>>, line |-> 2, within |-> 1]

\* Whether the call has an inline handler a nested call can lie in.
HasInlineHandler(call) ==
    \E i \in 1..Len(call.args) :
        call.args[i].type \in {"arrow_function", "function_expression"}

NodeFiles ==
    {<<c>> : c \in NodeCalls}
    \cup {<<c, NestedCall>> : c \in {d \in NodeCalls : HasInlineHandler(d)}}

\* The captures of the route query for the calls ks of the file, call by
\* call in the order of the pattern's captures.  Each capture is given by
\* the call expression the walk of lines 54-56 ends at, and its name.
RouteCaptureNames == <<"endpoint_node", "_obj", "method", "args">>

RECURSIVE RouteCaptures(_)
RouteCaptures(ks) ==
    IF ks = <<>> THEN <<>>
    ELSE [j \in 1..4 |-> [call |-> Head(ks), name |-> RouteCaptureNames[j]]]
         \o RouteCaptures(Tail(ks))

\* The indices 1..n as a sequence, and those satisfying a membership test.
RECURSIVE IndicesIn(_, _)
IndicesIn(n, S) ==
    IF n = 0 THEN <<>>
    ELSE IndicesIn(n - 1, S) \o (IF n \in S THEN <<n>> ELSE <<>>)

\* lines 52-65: node_captures, a dict in insertion order; a capture name
\* already present in a call's group is not overwritten.
RECURSIVE NodeGroup(_, _)
NodeGroup(captures, groups) ==
    IF captures = <<>> THEN groups
    ELSE LET c == Head(captures)
             at == {i \in 1..Len(groups) : groups[i].key = c.call}
             g == IF at = {}
                  THEN Append(groups, [key |-> c.call,
                                       labels |-> {"endpoint_node", c.name}])
                  ELSE [groups EXCEPT ![CHOOSE i \in at : TRUE].labels = @ \cup {c.name}]
         IN  NodeGroup(Tail(captures), g)

\* str.split("/")
RECURSIVE SplitSlash(_, _)
SplitSlash(s, part) ==
    IF s = <<>> THEN <<part>>
    ELSE IF Head(s) = Slash THEN <<part>> \o SplitSlash(Tail(s), <<>>)
    ELSE SplitSlash(Tail(s), Append(part, Head(s)))

\* lines 135-143: one required Path parameter per part that starts with ":".
RECURSIVE PathParameters(_)
PathParameters(parts) ==
    IF parts = <<>> THEN <<>>
    ELSE (IF Head(parts) # <<>> /\ Head(parts)[1] = ":"
          THEN <<Parameter(LStrip(Head(parts), {":"}), "path", "Any", TRUE)>>
          ELSE <<>>)
         \o PathParameters(Tail(parts))

\* line 158
param_map(text) ==
    CASE text = "query" -> "query"
      [] text = "params" -> "path"
      [] text = "body" -> "body"
      [] OTHER -> None

\* The capture names of the query run over the handler node at line 156,
\* which is the route query of lines 145-155.
HandlerQueryNames == RouteCaptureNames

\* The text of a capture of the route query.
RouteCaptureText(file, c) ==
    CASE c.name = "_obj" -> file[c.call].obj
      [] c.name = "method" -> file[c.call].method
      [] OTHER -> "call"

\* lines 160-175: the loop over the captures of the handler query.
RECURSIVE HandlerScan(_, _, _, _)
HandlerScan(file, captures, parameters, current_type) ==
    IF captures = <<>> THEN parameters
    ELSE LET c == Head(captures)
             text == RouteCaptureText(file, c)
             found_params == {<<parameters[i].name, parameters[i].param_type>> :
                                  i \in DOMAIN parameters}
         IN  IF c.name = "param_type"
             THEN HandlerScan(file, Tail(captures), parameters, param_map(text))
             ELSE IF c.name = "param_name" /\ <<text, current_type>> \notin found_params
             THEN HandlerScan(file, Tail(captures),
                      Append(parameters, Parameter(text, current_type, "Any", FALSE)),
                      current_type)
             ELSE HandlerScan(file, Tail(captures), parameters, current_type)

\* The calls lying in the handler body of call k.
NestedIn(file, k) ==
    {j \in 1..Len(file) : file[j].within = k /\ RouteQueryMatches(file[j])}

\* The captures of the handler query over the handler node of call k.
HandlerCaptures(file, k, handler_node) ==
    IF handler_node.type = "identifier" THEN <<>>
    ELSE LET all == RouteCaptures(IndicesIn(Len(file), NestedIn(file, k)))
         IN  [i \in 1..Len(all) |->
                 [all[i] EXCEPT !.name =
                     HandlerQueryNames[CHOOSE j \in 1..4 : RouteCaptureNames[j] = all[i].name]]]

\* _parse_node_parameters
ParseNodeParameters(file, k, handler_node, path) ==
    IF handler_node = NoHandler THEN <<>>
    ELSE LET fromPath == PathParameters(SplitSlash(path, <<>>))
             scanned == HandlerScan(file, HandlerCaptures(file, k, handler_node),
                                    fromPath, None)
             found_params == {<<scanned[i].name, scanned[i].param_type>> :
                                  i \in DOMAIN scanned}
             body_captures == handler_node.body.req_body
         IN  IF body_captures /\ <<BodyText, "body">> \notin found_params
             THEN Append(scanned, Parameter(BodyText, "body", "Object", FALSE))
             ELSE scanned

\* lines 83-86: the text of the first string argument without its quotes,
\* empty when there is none.
RECURSIVE FirstPath(_)
FirstPath(arg_children) ==
    IF arg_children = <<>> THEN <<>>
    ELSE IF Head(arg_children).type \in {"string_literal", "string"}
         THEN Strip(Head(arg_children).text, {SQ, DQ, BQ})
         ELSE FirstPath(Tail(arg_children))

\* The first argument that is a function literal or an identifier.
RECURSIVE FirstHandler(_)
FirstHandler(arg_children) ==
    IF arg_children = <<>> THEN NoHandler
    ELSE IF Head(arg_children).type
                \in {"arrow_function", "function_expression", "identifier"}
         THEN Head(arg_children)
         ELSE FirstHandler(Tail(arg_children))

\* lines 88-91: the last argument that is a function literal or an identifier.
RECURSIVE LastHandler(_)
LastHandler(arg_children) ==
    IF arg_children = <<>> THEN NoHandler
    ELSE LET last == arg_children[Len(arg_children)]
         IN  IF last.type \in {"arrow_function", "function_expression", "identifier"}
             THEN last
             ELSE LastHandler(SubSeq(arg_children, 1, Len(arg_children) - 1))

\* lines 96-101
HandlerName(handler_node) ==
    IF handler_node = NoHandler THEN <<"unknown_handler">>
    ELSE IF handler_node.type = "identifier" THEN <<handler_node.text>>
    ELSE <<"anonymous_handler_L", handler_node.line>>

\* lines 69-112 for one group of node_captures: the Endpoints it adds.
NodeEndpoints(file, group) ==
    LET call == file[group.key]
        path == FirstPath(call.args)
        handler_node == LastHandler(call.args)
    IN  IF "method" \notin group.labels \/ "args" \notin group.labels \/ path = <<>>
        THEN <<>>
        ELSE << [file_path |-> <<>>,
                 handler_name |-> HandlerName(handler_node),
                 http_method |-> Upper(call.method),
                 path |-> path,
                 line_number |-> call.line,
                 parameters |-> ParseNodeParameters(file, group.key, handler_node, path),
                 auth_mechanisms |-> <<>>] >>

NodeIdle ==
    [pc |-> "idle", file |-> <<>>, node_captures |-> <<>>, endpoints |-> <<>>,
     result |-> <<>>]

\* lines 47-65: the query has run and its captures are grouped.
NodeInit ==
    node \in {[pc |-> "loop", file |-> f,
               node_captures |->
                   NodeGroup(RouteCaptures(IndicesIn(Len(f),
                                 {k \in 1..Len(f) : RouteQueryMatches(f[k])})), <<>>),
               endpoints |-> <<>>, result |-> <<>>] : f \in NodeFiles}

\* One iteration of the loop of lines 68-112.
NodeCall ==
    /\ node.pc = "loop"
    /\ node.node_captures # <<>>
    /\ node' = [node EXCEPT
                  !.node_captures = Tail(@),
                  !.endpoints = @ \o NodeEndpoints(node.file, Head(node.node_captures))]
    /\ UNCHANGED <<norm, py, java, scan, reg>>

\* line 114: return endpoints
NodeReturn ==
    /\ node.pc = "loop"
    /\ node.node_captures = <<>>
    /\ node' = [node EXCEPT !.pc = "done", !.result = node.endpoints]
    /\ UNCHANGED <<norm, py, java, scan, reg>>

NodeNext == NodeCall \/ NodeReturn

(***************************************************************************)
(* The batch loop of the scan command (main.py).                           *)
(*                                                                         *)
(* The repository is the sequence of its files in the order os.walk yields *)
(* them.  A file says whether it passes the path and extension filters and *)
(* has a language (selected), what becomes of its try block (outcome), and *)
(* how many Endpoints its analysis returns (n).                            *)
(***************************************************************************)

MaxFiles == 3
MaxEndpoints == 2

ScanOutcomes == {"read_raises", "init_raises", "analyze_raises", "ok"}

\* A file of the walk: its suffix (lower case throughout), whether the
\* tests of lines 190-197 (ignored path, extension options) pass it over,
\* and what reading and analyzing it leads to.
ScanFilePool ==
    {[suffix |-> ".md", filtered |-> FALSE, outcome |-> "ok", n |-> 0],
     [suffix |-> ".py", filtered |-> TRUE, outcome |-> "ok", n |-> 0],
     [suffix |-> ".ts", filtered |-> FALSE, outcome |-> "ok", n |-> 1]}
    \cup {[suffix |-> ".py", filtered |-> FALSE, outcome |-> o, n |-> 0] :
              o \in ScanOutcomes \ {"ok"}}
    \cup {[suffix |-> ".py", filtered |-> FALSE, outcome |-> "ok", n |-> k] :
              k \in 0..MaxEndpoints}

\* --lang
ScanLanguages == {"auto", "nodejs"}

\* main.py:38-61
GetLanguageFromExtension(suffix, force_language) ==
    IF force_language # "auto"
    THEN IF force_language = "nodejs"
         THEN IF suffix \in {".js", ".ts"}
              THEN (IF suffix = ".ts" THEN "typescript" ELSE "javascript")
              ELSE None
         ELSE force_language
    ELSE CASE suffix = ".py" -> "python"
           [] suffix = ".java" -> "java"
           [] suffix = ".js" -> "javascript"
           [] suffix = ".ts" -> "typescript"
           [] OTHER -> None

\* lines 187-199, 212-224: the language under which the k-th file of the
\* walk is analyzed, None when the file is passed over.
ScanLang(s, k) ==
    IF s.files[k].filtered THEN None
    ELSE GetLanguageFromExtension(s.files[k].suffix, s.language)

ScanRepos == SeqsUpTo(ScanFilePool, MaxFiles)

\* relative_file_path of the k-th file of the walk.
RelativePath(k) == <<"file", k>>

\* Whether open/read, get_analyzer or analyze raises for the file.
ScanRaises(file) == file.outcome # "ok"

\* Whether the file's try block gets past get_analyzer (line 230, line 266).
ScanCounted(file) == file.outcome \in {"analyze_raises", "ok"}

\* What analyzer.analyze() returns for the k-th file.
AnalyzeResult(files, k) ==
    [j \in 1..files[k].n |-> [file_path |-> <<>>, handler_name |-> <<k, j>>]]

\* lines 234-235, 268-269: every Endpoint gets the file's relative path.
SetFilePath(endpoints, path) ==
    [j \in DOMAIN endpoints |-> [endpoints[j] EXCEPT !.file_path = path]]

\* lines 227-236, 262-270: the try block runs to its end.
TryBlock(s, k) ==
    [s EXCEPT !.files_analyzed_count = @ + 1,
              !.all_endpoints =
                  @ \o SetFilePath(AnalyzeResult(s.files, k), RelativePath(k))]

\* A handler that also drops what was collected so far.
ExceptBlockKeepsNone(s, k) ==
    [s EXCEPT !.files_analyzed_count = @ + (IF ScanCounted(s.files[k]) THEN 1 ELSE 0),
              !.all_endpoints = <<>>,
              !.warnings = Append(@, k)]

\* lines 237-240, 271-273: the try block raises and the handler reports the file.
ExceptBlock(s, k) ==
    [s EXCEPT !.files_analyzed_count = @ + (IF ScanCounted(s.files[k]) THEN 1 ELSE 0),
              !.warnings = Append(@, k)]

\* analyzed_as lists the (file, language) pairs that entered a try block.
ScanIdle ==
    [pc |-> "idle", verbose |-> FALSE, language |-> "auto", files |-> <<>>,
     files_to_analyze |-> <<>>, i |-> 1, all_endpoints |-> <<>>,
     files_analyzed_count |-> 0, warnings |-> <<>>, completed |-> 0,
     analyzed_as |-> <<>>]

\* A pre-scan that lists the files language by language.
FilesToAnalyzeByLanguage(s) ==
    LET of(lang) == IndicesIn(Len(s.files),
                              {k \in 1..Len(s.files) : ScanLang(s, k) = lang})
        tagged(lang) == [j \in DOMAIN of(lang) |-> <<of(lang)[j], lang>>]
    IN  tagged("javascript") \o tagged("python") \o tagged("typescript")

\* lines 185-201: the (file, language) pairs of the pre-scan, in walk order.
FilesToAnalyze(s) ==
    LET ks == IndicesIn(Len(s.files),
                        {k \in 1..Len(s.files) : ScanLang(s, k) # None})
    IN  [j \in DOMAIN ks |-> <<ks[j], ScanLang(s, ks[j])>>]

\* lines 178-182: the state before the pre-scan.
ScanInit ==
    scan \in {[ScanIdle EXCEPT !.pc = "prescan", !.verbose = v, !.language = l,
                               !.files = fs] :
                  v \in BOOLEAN, l \in ScanLanguages, fs \in ScanRepos}

\* lines 183-203: the pre-scan, which lists the selected files in quiet mode.
ScanPreScan ==
    /\ scan.pc = "prescan"
    /\ scan' = [scan EXCEPT
                  !.files_to_analyze =
                      IF scan.verbose THEN <<>> ELSE FilesToAnalyze(scan),
                  !.pc = IF scan.verbose THEN "verbose" ELSE "quiet"]
    /\ UNCHANGED <<norm, py, java, node, reg>>

\* lines 210-224: the file is ignored, filtered out or has no language.
ScanVerboseSkip ==
    /\ scan.pc = "verbose"
    /\ scan.i <= Len(scan.files)
    /\ ScanLang(scan, scan.i) = None
    /\ scan' = [scan EXCEPT !.i = @ + 1]
    /\ UNCHANGED <<norm, py, java, node, reg>>

\* lines 225-236
ScanVerboseAnalyze ==
    /\ scan.pc = "verbose"
    /\ scan.i <= Len(scan.files)
    /\ ScanLang(scan, scan.i) # None
    /\ ~ScanRaises(scan.files[scan.i])
    /\ scan' = [TryBlock(scan, scan.i) EXCEPT
                  !.i = @ + 1,
                  !.analyzed_as = Append(@, <<scan.i, ScanLang(scan, scan.i)>>)]
    /\ UNCHANGED <<norm, py, java, node, reg>>

\* lines 225-240
ScanVerboseWarn ==
    /\ scan.pc = "verbose"
    /\ scan.i <= Len(scan.files)
    /\ ScanLang(scan, scan.i) # None
    /\ ScanRaises(scan.files[scan.i])
    /\ scan' = [ExceptBlock(scan, scan.i) EXCEPT
                  !.i = @ + 1,
                  !.analyzed_as = Append(@, <<scan.i, ScanLang(scan, scan.i)>>)]
    /\ UNCHANGED <<norm, py, java, node, reg>>

\* lines 259-270, 275-278
ScanQuietAnalyze ==
    /\ scan.pc = "quiet"
    /\ scan.i <= Len(scan.files_to_analyze)
    /\ ~ScanRaises(scan.files[scan.files_to_analyze[scan.i][1]])
    /\ scan' = [TryBlock(scan, scan.files_to_analyze[scan.i][1]) EXCEPT
                  !.i = @ + 1, !.completed = @ + 1,
                  !.analyzed_as = Append(@, scan.files_to_analyze[scan.i])]
    /\ UNCHANGED <<norm, py, java, node, reg>>

\* lines 259-278
ScanQuietWarn ==
    /\ scan.pc = "quiet"
    /\ scan.i <= Len(scan.files_to_analyze)
    /\ ScanRaises(scan.files[scan.files_to_analyze[scan.i][1]])
    /\ scan' = [ExceptBlock(scan, scan.files_to_analyze[scan.i][1]) EXCEPT
                  !.i = @ + 1, !.completed = @ + 1,
                  !.analyzed_as = Append(@, scan.files_to_analyze[scan.i])]
    /\ UNCHANGED <<norm, py, java, node, reg>>

\* line 280: the loop is over.
ScanComplete ==
    /\ scan.pc \in {"verbose", "quiet"}
    /\ scan.i > Len(IF scan.verbose THEN scan.files ELSE scan.files_to_analyze)
    /\ scan' = [scan EXCEPT !.pc = "done"]
    /\ UNCHANGED <<norm, py, java, node, reg>>

ScanNext ==
    \/ ScanPreScan
    \/ ScanVerboseSkip
    \/ ScanVerboseAnalyze
    \/ ScanVerboseWarn
    \/ ScanQuietAnalyze
    \/ ScanQuietWarn
    \/ ScanComplete

(***************************************************************************)
(* Python: the parameters of a decorated function (python.py:107-227).     *)
(* A text that the code only tests by prefix and by containment is kept as *)
(* its sequence of tokens.                                                 *)
(***************************************************************************)

MaxPyParams == 2

PyParamNames == << <<"x">>, <<"y">>, <<"z">> >>
PyTypeHints == {<<"int">>, <<"Item">>}

\* The text of a node that is absent: no identifier has the empty text.
NoText == <<>>
PySentinels == {"Path", "Query", "Body"}
PyDefaults ==
    {<<"1">>, <<"Query", "(", "...", ")">>, <<"Path", "(", "None", ")">>,
     <<"Body", "(", "...", ")">>}

\* str.lower() on the texts that occur.
Lower(text) ==
    CASE text = <<"Any">> -> <<"any">>
      [] text = <<"Item">> -> <<"item">>
      [] text = <<"Path">> -> <<"path">>
      [] text = <<"Query">> -> <<"query">>
      [] text = <<"Body">> -> <<"body">>
      [] OTHER -> text

StartsWith(text, prefix) ==
    Len(text) >= Len(prefix) /\ SubSeq(text, 1, Len(prefix)) = prefix

\* "..." in text
HasEllipsis(text) == \E i \in DOMAIN text : text[i] = "..."

\* A declared parameter: a bare identifier, name: type, name=default or
\* name: type = default.
PyParam(kind, name, type, default) ==
    [kind |-> kind, name |-> name, type |-> type, default |-> default]

PyParamPool(name) ==
    {PyParam("identifier", name, NoText, <<>>)}
    \cup {PyParam("typed_parameter", name, t, <<>>) : t \in PyTypeHints}
    \cup {PyParam("default_parameter", name, NoText, d) : d \in PyDefaults}
    \cup {PyParam("typed_default_parameter", name, t, d) :
              t \in PyTypeHints, d \in PyDefaults}

PyParamLists ==
    UNION {[1..n -> UNION {PyParamPool(PyParamNames[k]) : k \in 1..MaxPyParams}]
               : n \in 0..MaxPyParams}

\* The declared lists: the k-th parameter carries the k-th name.
PyDeclared ==
    {ps \in PyParamLists : \A k \in DOMAIN ps : ps[k].name = PyParamNames[k]}

\* Captures that start at the same offset arrive by pattern number, or
\* with the captures of the bare (identifier) pattern first.
PyTieOrders == {"by_pattern", "bare_first"}

\* A capture: its label and text, and the kind and start offset of the node
\* at which the ancestor walk of lines 152-154 stops.
PyIdCapture(text, start, label) ==
    [type |-> "identifier", start_byte |-> start, name |-> label, text |-> text]
PyOuterCapture(kind, start) ==
    [type |-> kind, start_byte |-> start, name |-> "param_node", text |-> <<>>]
PyValueCapture(kind, start, default) ==
    [type |-> kind, start_byte |-> start, name |-> "default_value",
     text |-> default]

\* The identifiers inside a default value: the callee of a sentinel call.
PyDefaultIds(default, s) ==
    IF Head(default) \in PySentinels
    THEN <<PyIdCapture(<<Head(default)>>, s + 5, "param_name")>>
    ELSE <<>>

\* lines 124-146: the captures of the query over one declared parameter that
\* starts at offset s.  The second pattern asks a default_parameter for a
\* type field, which it never has; name: type = default is a
\* typed_default_parameter, which only the bare pattern reaches.
PyParamCaptures(p, s, tie) ==
    LET nm  == PyIdCapture(p.name, s, "param_name")
        tyN == PyIdCapture(p.type, s + 2, "param_name")
        tyT == PyIdCapture(p.type, s + 2, "param_type")
        out == PyOuterCapture(p.kind, s)
        val == PyValueCapture(p.kind, s, p.default)
    IN  CASE p.kind = "identifier" -> <<nm>>
          [] p.kind = "typed_parameter" ->
                 IF tie = "by_pattern" THEN <<out, nm, nm, tyT, tyN>>
                 ELSE <<nm, out, nm, tyN, tyT>>
          [] p.kind = "default_parameter" ->
                 IF tie = "by_pattern"
                 THEN <<out, nm, nm, val>> \o PyDefaultIds(p.default, s)
                 ELSE <<nm, out, nm>> \o PyDefaultIds(p.default, s) \o <<val>>
          [] OTHER -> <<nm, tyN>> \o PyDefaultIds(p.default, s)

RECURSIVE PyListCaptures(_, _, _)
PyListCaptures(ps, k, tie) ==
    IF k > Len(ps) THEN <<>>
    ELSE PyParamCaptures(ps[k], 10 * k, tie) \o PyListCaptures(ps, k + 1, tie)

\* The dictionary current_param; an absent key holds the empty text, which
\* is also what line 203 reads for an absent default.
EmptyParam ==
    [name |-> NoText, type |-> NoText, default |-> <<>>, required |-> TRUE]

\* lines 189-227
CreatePythonParameter(param_data) ==
    LET data_type == IF param_data.type = NoText THEN <<"Any">>
                     ELSE param_data.type
        default_val == param_data.default
        sentinel == \E h \in PySentinels : StartsWith(default_val, <<h, "(">>)
        param_type ==
            IF StartsWith(default_val, <<"Path", "(">>) THEN "path"
            ELSE IF StartsWith(default_val, <<"Query", "(">>) THEN "query"
            ELSE IF StartsWith(default_val, <<"Body", "(">>) THEN "body"
            ELSE IF ~param_data.required THEN "query"
            ELSE IF Lower(data_type)
                        \in {<<"int">>, <<"str">>, <<"float">>, <<"bool">>, <<"any">>}
                 THEN "query"
                 ELSE "body"
        required == IF sentinel THEN ~HasEllipsis(default_val)
                    ELSE param_data.required
    IN  Parameter(param_data.name, param_type, data_type, required)

\* lines 160-161, 167-168, 184-185
PyParamFlush(st) ==
    IF st.current_param.name # NoText
    THEN Append(st.parameters, CreatePythonParameter(st.current_param))
    ELSE st.parameters

\* lines 151-182: one turn of the loop over the captures.
PyParamStep(st, c) ==
    IF c.type = "identifier" /\ c.name = "param_name"
    THEN IF c.start_byte # st.current_param_node_id
         THEN [st EXCEPT !.parameters = PyParamFlush(st),
                         !.current_param_node_id = c.start_byte,
                         !.current_param = [EmptyParam EXCEPT !.name = c.text]]
         ELSE st
    ELSE LET st1 ==
                 IF st.current_param_node_id # c.start_byte
                 THEN [st EXCEPT
                          !.parameters = PyParamFlush(st),
                          !.current_param_node_id = c.start_byte,
                          !.current_param =
                              [EmptyParam EXCEPT
                                  !.required = (c.type # "default_parameter")]]
                 ELSE st
         IN  CASE c.name = "param_type" ->
                      [st1 EXCEPT !.current_param.type = c.text]
               [] c.name = "default_value" ->
                      [st1 EXCEPT !.current_param.required = FALSE,
                                  !.current_param.default = c.text]
               [] OTHER -> st1

\* No node starts at offset 0, which stands for the None of line 148.
PyParamsInit ==
    py \in {[pc |-> "loop", params |-> ps, tie |-> tie,
             captures |-> PyListCaptures(ps, 1, tie),
             current_param_node_id |-> 0, current_param |-> EmptyParam,
             parameters |-> <<>>, result |-> <<>>] :
                ps \in PyDeclared, tie \in PyTieOrders}

PyParamsCapture ==
    /\ py.pc = "loop"
    /\ py.captures # <<>>
    /\ py' = [PyParamStep(py, Head(py.captures)) EXCEPT
                 !.captures = Tail(py.captures)]
    /\ UNCHANGED <<norm, java, node, scan, reg>>

PyParamsReturn ==
    /\ py.pc = "loop"
    /\ py.captures = <<>>
    /\ py' = [py EXCEPT !.pc = "done", !.parameters = PyParamFlush(py),
                        !.result = PyParamFlush(py)]
    /\ UNCHANGED <<norm, java, node, scan, reg>>

PyParamsNext == PyParamsCapture \/ PyParamsReturn

(***************************************************************************)
(* scan: the filtering of the collected Endpoints (main.py:283-306).       *)
(***************************************************************************)

MaxCollected == 3

\* An option that was not given.
NotGiven == <<>>

\* --include-verbs and --exclude-verbs, each as the pieces between its commas.
IncludeVerbsOptions == {NotGiven, <<"get">>, <<"GET", " post">>}
ExcludeVerbsOptions == {NotGiven, <<"POST">>, <<"get", "ANY">>}

\* str.strip() on the pieces that occur.
StripVerb(text) ==
    CASE text = " post" -> "post"
      [] OTHER -> text

\* lines 287-288
VerbSet(option) == {Upper(StripVerb(option[i])) : i \in DOMAIN option}

CollectedPool ==
    {[handler_name |-> "h", http_method |-> m, auth_mechanisms |-> a] :
         m \in {"GET", "POST", "ANY"}, a \in {<<>>, <<"PreAuthorize">>}}

\* A loop that applies --exclude-verbs only when --include-verbs is absent.
FilterKeepsIncludeFirst(s, endpoint) ==
    LET verb == Upper(endpoint.http_method)
        is_authenticated == endpoint.auth_mechanisms # <<>>
    IN  /\ IF VerbSet(s.include_verbs) # {} THEN verb \in VerbSet(s.include_verbs)
           ELSE ~(VerbSet(s.exclude_verbs) # {} /\ verb \in VerbSet(s.exclude_verbs))
        /\ ~(s.auth /\ ~is_authenticated)
        /\ ~(s.no_auth /\ is_authenticated)

\* lines 291-301: whether the loop reaches the append of line 303.
FilterKeeps(s, endpoint) ==
    LET include_set == VerbSet(s.include_verbs)
        exclude_set == VerbSet(s.exclude_verbs)
        verb == Upper(endpoint.http_method)
        is_authenticated == endpoint.auth_mechanisms # <<>>
    IN  /\ ~(include_set # {} /\ verb \notin include_set)
        /\ ~(exclude_set # {} /\ verb \in exclude_set)
        /\ ~(s.auth /\ ~is_authenticated)
        /\ ~(s.no_auth /\ is_authenticated)

\* line 143 has refused --auth together with --no-auth.
ScanFilterInit ==
    scan \in {[pc |-> "filter", collected |-> es, all_endpoints |-> es,
               include_verbs |-> iv, exclude_verbs |-> ev,
               auth |-> am = "auth", no_auth |-> am = "no_auth",
               i |-> 1, filtered_endpoints |-> <<>>] :
                  es \in SeqsUpTo(CollectedPool, MaxCollected),
                  iv \in IncludeVerbsOptions, ev \in ExcludeVerbsOptions,
                  am \in {"auth", "no_auth", "neither"}}

\* line 283
ScanFilterWanted(s) ==
    s.include_verbs # NotGiven \/ s.exclude_verbs # NotGiven \/ s.auth \/ s.no_auth

\* line 283 is false: the Endpoints go to the formatter as collected.
ScanFilterNone ==
    /\ scan.pc = "filter"
    /\ ~ScanFilterWanted(scan)
    /\ scan' = [scan EXCEPT !.pc = "format"]
    /\ UNCHANGED <<norm, py, java, node, reg>>

\* lines 290-303: one turn of the loop.
ScanFilterEndpoint ==
    /\ scan.pc = "filter"
    /\ ScanFilterWanted(scan)
    /\ scan.i <= Len(scan.all_endpoints)
    /\ scan' = [scan EXCEPT
                  !.i = @ + 1,
                  !.filtered_endpoints =
                      IF FilterKeeps(scan, scan.all_endpoints[scan.i])
                      THEN Append(@, scan.all_endpoints[scan.i])
                      ELSE @]
    /\ UNCHANGED <<norm, py, java, node, reg>>

\* lines 305-306
ScanFilterAssign ==
    /\ scan.pc = "filter"
    /\ ScanFilterWanted(scan)
    /\ scan.i > Len(scan.all_endpoints)
    /\ scan' = [scan EXCEPT !.pc = "format",
                            !.all_endpoints = scan.filtered_endpoints]
    /\ UNCHANGED <<norm, py, java, node, reg>>

ScanFilterNext == ScanFilterNone \/ ScanFilterEndpoint \/ ScanFilterAssign

(***************************************************************************)
(* Capture correlation: the loops that put every capture into the group of *)
(* its nearest annotation (java.py:175-181) or call (nodejs.py:52-65).     *)
(* Here a capture carries its node and the node's ancestors, and a group   *)
(* is the dict from capture name to node; the captures arrive in any       *)
(* order.                                                                  *)
(***************************************************************************)

SyntaxNode(type, start_byte) == [type |-> type, start_byte |-> start_byte]

\* The walk found no ancestor of a boundary kind.
NoBoundary == SyntaxNode("None", 0)

\* The boundary farthest from the node.
RECURSIVE OutermostBoundary(_, _)
OutermostBoundary(path, kinds) ==
    IF path = <<>> THEN NoBoundary
    ELSE IF path[Len(path)].type \in kinds THEN path[Len(path)]
    ELSE OutermostBoundary(SubSeq(path, 1, Len(path) - 1), kinds)

\* java.py:177-179, nodejs.py:54-56: from the node upwards, the first node
\* of a boundary kind.  path holds the node and then its ancestors.
RECURSIVE BoundaryOf(_, _)
BoundaryOf(path, kinds) ==
    IF path = <<>> THEN NoBoundary
    ELSE IF Head(path).type \in kinds THEN Head(path)
    ELSE BoundaryOf(Tail(path), kinds)

Captured(name, path) == [name |-> name, path |-> path]

\* The annotations of one modifiers node: kind, start offset, and the
\* annotation (0 for none) in whose argument list it stands.
Modifier(type, start_byte, parent) ==
    [type |-> type, start_byte |-> start_byte, parent |-> parent]

\* @GetMapping("/a") @Deprecated; @RequestMapping(headers = @X("a"));
\* @GET; @Secured(@A) @GET.
CorrelateModifiers ==
    {<<Modifier("annotation", 1, 0), Modifier("marker_annotation", 20, 0)>>,
     <<Modifier("annotation", 1, 0), Modifier("annotation", 15, 1)>>,
     <<Modifier("marker_annotation", 1, 0)>>,
     <<Modifier("annotation", 1, 0), Modifier("marker_annotation", 12, 1),
       Modifier("marker_annotation", 20, 0)>>}

RECURSIVE AnnotationPath(_, _)
AnnotationPath(mods, k) ==
    <<SyntaxNode(mods[k].type, mods[k].start_byte)>>
    \o (IF mods[k].parent = 0 THEN <<SyntaxNode("modifiers", 1)>>
        ELSE <<SyntaxNode("annotation_argument_list",
                          mods[mods[k].parent].start_byte + 5)>>
             \o AnnotationPath(mods, mods[k].parent))

\* lines 147-157: the captures of the annotation query for the k-th
\* annotation.
AnnotationCaptures(mods, k) ==
    LET up == AnnotationPath(mods, k)
        s  == mods[k].start_byte
    IN  {Captured("annotation_node", up),
         Captured("method_annotation", <<SyntaxNode("identifier", s + 1)>> \o up)}
        \cup (IF mods[k].type = "annotation"
              THEN {Captured("annotation_args",
                             <<SyntaxNode("annotation_argument_list", s + 5)>> \o up)}
              ELSE {})

\* java.py:176-181
CorrelateAnnotation(annot_nodes, c) ==
    LET annot_node == BoundaryOf(c.path, {"annotation", "marker_annotation"})
        key == annot_node.start_byte
        group == IF key \in DOMAIN annot_nodes THEN annot_nodes[key] ELSE <<>>
    IN  IF annot_node = NoBoundary THEN annot_nodes
        ELSE (key :> ((c.name :> Head(c.path)) @@ group)) @@ annot_nodes

\* The calls of one file: start offset, the call (0 for none) in whose
\* handler body it stands, and whether a further call is chained to it, as
\* in app.use(a).use(b), where only the inner call has an identifier as
\* object.
RouteCall(start_byte, parent, chained) ==
    [start_byte |-> start_byte, parent |-> parent, chained |-> chained]

\* app.get('/a', h); router.post('/b', g) -- app.get('/a', () => {
\* router.use(x) }) -- app.use(a).use(b); app.get('/a', h).
CorrelateCalls ==
    {<<RouteCall(1, 0, FALSE), RouteCall(30, 0, FALSE)>>,
     <<RouteCall(1, 0, FALSE), RouteCall(25, 1, FALSE)>>,
     <<RouteCall(1, 0, TRUE), RouteCall(30, 0, FALSE)>>}

RECURSIVE CallPath(_, _)
CallPath(calls, k) ==
    <<SyntaxNode("call_expression", calls[k].start_byte)>>
    \o (IF calls[k].chained
        THEN <<SyntaxNode("member_expression", calls[k].start_byte),
               SyntaxNode("call_expression", calls[k].start_byte)>>
        ELSE <<>>)
    \o (IF calls[k].parent = 0 THEN <<SyntaxNode("program", 0)>>
        ELSE <<SyntaxNode("statement_block", calls[k].start_byte - 2),
               SyntaxNode("arrow_function", calls[calls[k].parent].start_byte + 15),
               SyntaxNode("arguments", calls[calls[k].parent].start_byte + 8)>>
             \o CallPath(calls, calls[k].parent))

\* nodejs.py:35-45: the captures of the route query for the k-th call.
CallCaptures(calls, k) ==
    LET up == CallPath(calls, k)
        s  == calls[k].start_byte
        fn == <<SyntaxNode("member_expression", s)>> \o up
    IN  {Captured("endpoint_node", up),
         Captured("_obj", <<SyntaxNode("identifier", s)>> \o fn),
         Captured("method", <<SyntaxNode("property_identifier", s + 4)>> \o fn),
         Captured("args", <<SyntaxNode("arguments", s + 8)>> \o up)}

\* nodejs.py:53-65
CorrelateCall(node_captures, c) ==
    LET endpoint_node == BoundaryOf(c.path, {"call_expression"})
        node_id == endpoint_node.start_byte
        group == IF node_id \in DOMAIN node_captures THEN node_captures[node_id]
                 ELSE ("endpoint_node" :> endpoint_node)
    IN  IF endpoint_node = NoBoundary THEN node_captures
        ELSE (node_id :> (IF c.name \in DOMAIN group THEN group
                          ELSE (c.name :> Head(c.path)) @@ group))
             @@ node_captures

CorrelateJavaInit ==
    /\ java \in {[pc |-> "correlate", modifiers |-> mods,
                  captures |-> UNION {AnnotationCaptures(mods, k) : k \in DOMAIN mods},
                  annot_nodes |-> <<>>] : mods \in CorrelateModifiers}
    /\ node = NodeIdle

CorrelateNodeInit ==
    /\ node \in {[pc |-> "correlate", calls |-> calls,
                  captures |-> UNION {CallCaptures(calls, k) : k \in DOMAIN calls},
                  node_captures |-> <<>>] : calls \in CorrelateCalls}
    /\ java = JavaIdle

\* One turn of the loop of java.py:176-181, for whichever capture comes next.
CorrelateJavaCapture ==
    /\ java.pc = "correlate"
    /\ \E c \in java.captures :
           java' = [java EXCEPT !.captures = @ \ {c},
                                !.annot_nodes = CorrelateAnnotation(@, c)]
    /\ UNCHANGED <<norm, py, node, scan, reg>>

\* One turn of the loop of nodejs.py:53-65, for whichever capture comes next.
CorrelateNodeCapture ==
    /\ node.pc = "correlate"
    /\ \E c \in node.captures :
           node' = [node EXCEPT !.captures = @ \ {c},
                                !.node_captures = CorrelateCall(@, c)]
    /\ UNCHANGED <<norm, py, java, scan, reg>>

CorrelateNext == CorrelateJavaCapture \/ CorrelateNodeCapture

(***************************************************************************)
(* scan: the life of the temporary clone directory (main.py:143-171,       *)
(* 319-336).  The analysis between the path filter and the output is one   *)
(* step that ends normally or with an error nobody catches.                *)
(***************************************************************************)

\* The directory that mkdtemp creates.
TempDir == "tmp"

CloneOutcomes == {"cloned", "GitCommandError", "other_error"}
OutputOutcomes == {"console", "written", "write_raises"}

\* The command line and what the environment answers: whether --auth and
\* --no-auth are both given, whether the source is a Git URL, whether a
\* local source is a directory, how the clone ends, whether the path filter
\* exists, whether the analysis or the formatter raises, and how the
\* output goes.
CommandInit ==
    scan \in {[pc |-> "options", auth_and_no_auth |-> c, is_git_url |-> g,
               is_dir |-> d, clone |-> cl, exists |-> x, raises |-> r,
               output |-> o, temp_dir |-> None, dirs |-> {}, rmtree_calls |-> 0,
               leaving |-> "", ending |-> ""] :
                  c \in BOOLEAN, g \in BOOLEAN, d \in BOOLEAN, cl \in CloneOutcomes,
                  x \in BOOLEAN, r \in BOOLEAN, o \in OutputOutcomes}

\* shutil.rmtree(temp_dir)
Rmtree(s) == [s EXCEPT !.dirs = @ \ {s.temp_dir}, !.rmtree_calls = @ + 1]

\* lines 143-147
CommandOptions ==
    /\ scan.pc = "options"
    /\ scan' = IF scan.auth_and_no_auth
               THEN [scan EXCEPT !.pc = "ended", !.ending = "exit"]
               ELSE [scan EXCEPT !.pc = IF scan.is_git_url THEN "clone" ELSE "local"]
    /\ UNCHANGED <<norm, py, java, node, reg>>

\* lines 149-157: only GitCommandError is caught around the clone; any other
\* error raised there (an interrupt from the keyboard, say) leaves the
\* command before the try of line 165 is entered.
CommandClone ==
    /\ scan.pc = "clone"
    /\ LET made == [scan EXCEPT !.temp_dir = TempDir, !.dirs = @ \cup {TempDir}]
       IN  scan' = CASE scan.clone = "cloned" -> [made EXCEPT !.pc = "try"]
                     [] scan.clone = "GitCommandError" ->
                            [Rmtree(made) EXCEPT !.pc = "ended", !.ending = "exit"]
                     [] OTHER -> [made EXCEPT !.pc = "ended", !.ending = "error"]
    /\ UNCHANGED <<norm, py, java, node, reg>>

\* lines 159-163
CommandLocal ==
    /\ scan.pc = "local"
    /\ scan' = IF scan.is_dir
               THEN [scan EXCEPT !.pc = "try", !.temp_dir = None]
               ELSE [scan EXCEPT !.pc = "ended", !.ending = "exit"]
    /\ UNCHANGED <<norm, py, java, node, reg>>

\* lines 165-171
CommandPathFilter ==
    /\ scan.pc = "try"
    /\ scan' = IF scan.exists
               THEN [scan EXCEPT !.pc = "analysis"]
               ELSE [scan EXCEPT !.pc = "finally", !.leaving = "exit"]
    /\ UNCHANGED <<norm, py, java, node, reg>>

\* lines 173-317
CommandAnalysis ==
    /\ scan.pc = "analysis"
    /\ scan' = IF scan.raises
               THEN [scan EXCEPT !.pc = "finally", !.leaving = "error"]
               ELSE [scan EXCEPT !.pc = "output"]
    /\ UNCHANGED <<norm, py, java, node, reg>>

\* lines 319-333
CommandOutput ==
    /\ scan.pc = "output"
    /\ scan' = [scan EXCEPT !.pc = "finally",
                            !.leaving = IF scan.output = "write_raises" THEN "exit"
                                        ELSE "completed"]
    /\ UNCHANGED <<norm, py, java, node, reg>>

\* lines 334-336
CommandFinally ==
    /\ scan.pc = "finally"
    /\ scan' = [(IF scan.is_git_url /\ scan.temp_dir # None THEN Rmtree(scan)
                 ELSE scan)
                   EXCEPT !.pc = "ended", !.ending = scan.leaving]
    /\ UNCHANGED <<norm, py, java, node, reg>>

CommandNext ==
    \/ CommandOptions
    \/ CommandClone
    \/ CommandLocal
    \/ CommandPathFilter
    \/ CommandAnalysis
    \/ CommandOutput
    \/ CommandFinally

(***************************************************************************)
(* Specifications of the components checked so far.                        *)
(***************************************************************************)

InitNorm ==
    /\ NormInit /\ py = PyIdle /\ reg = RegIdle
    /\ java = JavaIdle /\ node = NodeIdle /\ scan = ScanIdle

SpecNorm == InitNorm /\ [][NormJoin]_vars

InitReg ==
    /\ RegInit /\ norm = NormIdle /\ py = PyIdle
    /\ java = JavaIdle /\ node = NodeIdle /\ scan = ScanIdle

SpecReg == InitReg /\ [][RegNext]_vars

InitPy ==
    /\ PyInit /\ norm = NormIdle /\ reg = RegIdle
    /\ java = JavaIdle /\ node = NodeIdle /\ scan = ScanIdle

SpecPy == InitPy /\ [][PyNext]_vars

InitJava ==
    /\ JavaInit /\ norm = NormIdle /\ py = PyIdle /\ reg = RegIdle
    /\ node = NodeIdle /\ scan = ScanIdle

SpecJava == InitJava /\ [][JavaNext]_vars

InitAnalyzer ==
    /\ AnalyzerInit /\ norm = NormIdle /\ py = PyIdle /\ java = JavaIdle
    /\ node = NodeIdle /\ scan = ScanIdle

SpecAnalyzer == InitAnalyzer /\ [][AnalyzerStep]_vars

InitPyParams ==
    /\ PyParamsInit /\ norm = NormIdle /\ reg = RegIdle
    /\ java = JavaIdle /\ node = NodeIdle /\ scan = ScanIdle

SpecPyParams == InitPyParams /\ [][PyParamsNext]_vars

InitFilter ==
    /\ ScanFilterInit /\ norm = NormIdle /\ reg = RegIdle
    /\ py = PyIdle /\ java = JavaIdle /\ node = NodeIdle

SpecFilter == InitFilter /\ [][ScanFilterNext]_vars

InitCorrelate ==
    /\ CorrelateJavaInit \/ CorrelateNodeInit
    /\ norm = NormIdle /\ reg = RegIdle /\ py = PyIdle /\ scan = ScanIdle

SpecCorrelate == InitCorrelate /\ [][CorrelateNext]_vars

InitCommand ==
    /\ CommandInit /\ norm = NormIdle /\ reg = RegIdle
    /\ py = PyIdle /\ java = JavaIdle /\ node = NodeIdle

SpecCommand == InitCommand /\ [][CommandNext]_vars

InitNode ==
    /\ NodeInit /\ norm = NormIdle /\ py = PyIdle /\ java = JavaIdle
    /\ reg = RegIdle /\ scan = ScanIdle

SpecNode == InitNode /\ [][NodeNext]_vars

InitScan ==
    /\ ScanInit /\ norm = NormIdle /\ py = PyIdle /\ java = JavaIdle
    /\ node = NodeIdle /\ reg = RegIdle

SpecScan == InitScan /\ [][ScanNext]_vars


(***************************************************************************)
(* The claims.                                                             *)
(***************************************************************************)

\* The Python Endpoint a decorator of the tree's function should give.
PyExpected(e, tree, k) ==
    /\ e.handler_name = tree.fn.name
    /\ e.line_number = tree.fn.line
    /\ e.http_method = Upper(tree.decorators[k].method)
    /\ e.path = Strip(tree.decorators[k].path, {SQ, DQ})

\* C1: a function carrying two route decorators yields exactly two
\* Endpoints, with the same handler name and line, the first with the
\* method and path of the first decorator and the second with those of the
\* second decorator.
C1_TwoDecoratorsTwoEndpoints ==
    (/\ py.pc = "done"
     /\ PyWellFormed(py.tree)
     /\ py.tree.fn.name # None
     /\ Len(py.tree.decorators) = 2)
        => /\ Len(py.result) = 2
           /\ \A k \in 1..2 : PyExpected(py.result[k], py.tree, k)

\* C2: a module-level function definition carrying one route decorator
\* yields an Endpoint with the function's name and line, the upper-cased
\* verb and the path literal without its quotes.
C2_DecoratedFunctionFound ==
    (/\ py.pc = "done"
     /\ py.tree.parent_type = "decorated_definition"
     /\ py.tree.grandparent_type = "module"
     /\ py.tree.fn.name # None
     /\ Len(py.tree.decorators) = 1)
        => \E i \in 1..Len(py.result) : PyExpected(py.result[i], py.tree, 1)

\* The class of the Java file that declares the method, and the method.
JavaOwner == java.file[Len(java.file)]
JavaMethod == JavaOwner.methods[1]

\* The annotations of the method that bear paths: those with an argument
\* list whose name is a path annotation.
JavaPathBearing ==
    {i \in DOMAIN JavaMethod.annots :
         JavaMethod.annots[i].args /\ JavaMethod.annots[i].name \in path_annotations}

\* C3: once the analysis of a file is over, a method whose one path-bearing
\* annotation holds n >= 1 string literals has given exactly n Endpoints,
\* all with the method's name as handler and the same httpMethod; class
\* @RequestMapping("/api") with method @GetMapping({"/a","/b"}) gives the
\* paths "/api/a" and "/api/b", both with httpMethod "GET".
C3_OneEndpointPerLiteral ==
    (/\ java.pc \in {"done", "raised"}
     /\ JavaMethod.modifiers
     /\ JavaMethod.name # None
     /\ Cardinality(JavaPathBearing) = 1
     /\ \A i \in JavaPathBearing : Len(JavaMethod.annots[i].literals) >= 1)
        => /\ java.pc = "done"
           /\ \A i \in JavaPathBearing :
                  Len(java.result) = Len(JavaMethod.annots[i].literals)
           /\ \A j \in DOMAIN java.result :
                  /\ java.result[j].handler_name = JavaMethod.name
                  /\ java.result[j].http_method = java.result[1].http_method
           /\ (/\ Len(java.file) = 1
               /\ JavaOwner.annots = <<Annotation("RequestMapping", <<ApiLiteral>>)>>
               /\ JavaMethod.annots = <<Annotation("GetMapping", <<Lit(1), Lit(2)>>)>>)
                  => /\ java.result[1].path = <<"/", "a", "p", "i", "/", "a">>
                     /\ java.result[2].path = <<"/", "a", "p", "i", "/", "b">>
                     /\ java.result[1].http_method = "GET"

\* C4: the final path holds no "//" and ends with "/" only when it is "/";
\* base "/api/" with method path "/users/" gives "/api/users", and an empty
\* base with an empty method path gives "/".
C4_PathNormalised ==
    norm.pc = "done"
        => /\ ~HasDoubleSlash(norm.full_path)
           /\ norm.full_path # <<>>
           /\ (norm.full_path[Len(norm.full_path)] = Slash
                  => norm.full_path = <<Slash>>)
           /\ (norm.base_path = ApiSlash /\ norm.path = UsersSlash
                  => norm.full_path = ApiUsers)
           /\ (norm.base_path = <<>> /\ norm.path = <<>>
                  => norm.full_path = <<Slash>>)

\* The names of the auth vocabulary among annots.
AuthNamesOn(annots) == {annots[i].name : i \in DOMAIN annots} \cap auth_names

\* C5: the authMechanisms of every Endpoint of a method hold, each once,
\* exactly the auth-vocabulary annotation names on the class that declares
\* the method and on the method.
C5_AuthIsUnionOfClassAndMethod ==
    java.pc = "done"
        => \A j \in DOMAIN java.result :
               /\ Range(java.result[j].auth_mechanisms)
                      = AuthNamesOn(JavaOwner.annots) \cup AuthNamesOn(JavaMethod.annots)
               /\ Cardinality(Range(java.result[j].auth_mechanisms))
                      = Len(java.result[j].auth_mechanisms)

\* C6: router.get('/users/:id', (req,res)=>{ req.query.sort; req.body; })
\* yields one Endpoint with path "/users/:id" whose parameters are exactly
\* id (Path, required), sort (Query, optional) and body (Body, optional).
C6_NodeParameters ==
    (/\ node.pc = "done"
     /\ Len(node.file) = 1
     /\ node.file[1].obj = "router"
     /\ node.file[1].method = "get"
     /\ Len(node.file[1].args) = 2
     /\ node.file[1].args[1] = StringArg(UsersIdLiteral)
     /\ node.file[1].args[2].type = "arrow_function"
     /\ node.file[1].args[2].body = [query_names |-> <<SortText>>, req_body |-> TRUE])
        => /\ Len(node.result) = 1
           /\ node.result[1].path = UsersId
           /\ Len(node.result[1].parameters) = 3
           /\ {<<q.name, q.param_type, q.required>> :
                   q \in Range(node.result[1].parameters)}
                  = {<<IdText, "path", TRUE>>, <<SortText, "query", FALSE>>,
                     <<BodyText, "body", FALSE>>}

\* C7: whatever the syntax tree, analyze() of the Python, Java and Node.js
\* analyzers never raises.
C7_AnalyzeNeverRaises ==
    py.pc # "raised" /\ java.pc # "raised" /\ node.pc # "raised"

\* A file that the options let through and whose extension has a language:
\* .py, .java, .js and .ts, and only .js and .ts under --lang nodejs.
Selected(file) ==
    /\ ~file.filtered
    /\ file.suffix \in (IF scan.language = "nodejs" THEN {".js", ".ts"}
                        ELSE {".py", ".java", ".js", ".ts"})

\* The Endpoints and the warnings the batch loop owes after the files ks of
\* the walk: those of the selected files that do not raise, each under its
\* file's path, and the selected files that raise.
RECURSIVE ExpectedEndpoints(_, _)
ExpectedEndpoints(files, ks) ==
    IF ks = <<>> THEN <<>>
    ELSE (IF Selected(files[Head(ks)]) /\ files[Head(ks)].outcome = "ok"
          THEN [j \in 1..files[Head(ks)].n |->
                   [file_path |-> RelativePath(Head(ks)),
                    handler_name |-> <<Head(ks), j>>]]
          ELSE <<>>)
         \o ExpectedEndpoints(files, Tail(ks))

RECURSIVE ExpectedWarnings(_, _)
ExpectedWarnings(files, ks) ==
    IF ks = <<>> THEN <<>>
    ELSE (IF Selected(files[Head(ks)]) /\ files[Head(ks)].outcome # "ok"
          THEN <<Head(ks)>> ELSE <<>>)
         \o ExpectedWarnings(files, Tail(ks))

\* The files the loop has gone past.
ScanPassed ==
    IF scan.pc = "done" THEN IndicesIn(Len(scan.files), 1..Len(scan.files))
    ELSE IF scan.verbose THEN IndicesIn(scan.i - 1, 1..(scan.i - 1))
    ELSE [j \in 1..(scan.i - 1) |-> scan.files_to_analyze[j][1]]

\* C8: in both modes, at every point of the batch loop and at its end, the
\* result holds the Endpoints of exactly the files gone past that did not
\* raise, in order, and there is one warning for each file gone past that
\* raised: a raising file adds nothing, takes nothing away, and does not
\* stop the loop.
C8_RaisingFileOnlyWarns ==
    scan.pc \in {"verbose", "quiet", "done"}
        => /\ scan.all_endpoints = ExpectedEndpoints(scan.files, ScanPassed)
           /\ scan.warnings = ExpectedWarnings(scan.files, ScanPassed)

\* A quiet scan that ended after a file that raised in analyze(), between
\* two files that gave Endpoints.
C8_Witness ==
    /\ scan.pc = "done"
    /\ ~scan.verbose
    /\ Len(scan.files) = 3
    /\ Selected(scan.files[1]) /\ scan.files[1].outcome = "ok" /\ scan.files[1].n > 0
    /\ Selected(scan.files[2]) /\ scan.files[2].outcome = "analyze_raises"
    /\ Selected(scan.files[3]) /\ scan.files[3].outcome = "ok" /\ scan.files[3].n > 0

\* C9: a second analysis of the same bytes returns the same Endpoint
\* sequence as the first, authMechanisms order included.
C9_SameResultTwice ==
    (java.run = 2 /\ java.pc = "done") => java.result = java.first

\* C10: every call of get_ts_language for one id returns the same grammar
\* object, whatever the interleaving of the calls.
C10_SameInstancePerId ==
    \A p, q \in reg.returned : p[1] = q[1] => p[2] = q[2]

\* A request of thread t for an id without grammar that has not ended yet.
UnregisteredRequest(t) ==
    /\ ~HasGrammar(reg.lang[t])
    /\ reg.pc[t] \in {"get_analyzer", "test", "get_language"}

NoDuplicateEndpoints(result) ==
    \A i, j \in DOMAIN result :
        i # j => ~(/\ result[i].handler_name = result[j].handler_name
                   /\ result[i].http_method = result[j].http_method
                   /\ result[i].path = result[j].path)

\* C12: in the Endpoint sequence an analyzer returns for one file, no two
\* Endpoints have the same (handlerName, httpMethod, path).
C12_NoDuplicateEndpoints ==
    /\ NoDuplicateEndpoints(py.result)
    /\ NoDuplicateEndpoints(java.result)
    /\ NoDuplicateEndpoints(node.result)

\* The positions of the swagger_param entries in a parameter list, and the
\* rest of the list (the entries for formal parameters) in order.
SwaggerAt(parameters) ==
    {i \in DOMAIN parameters : parameters[i].name = "swagger_param"}

RECURSIVE WithoutSwagger(_)
WithoutSwagger(parameters) ==
    IF parameters = <<>> THEN <<>>
    ELSE (IF Head(parameters).name = "swagger_param" THEN <<>> ELSE <<Head(parameters)>>)
         \o WithoutSwagger(Tail(parameters))

\* C13: every Endpoint of a method with at least one @Parameter annotation
\* holds exactly one parameter swagger_param (Query, optional, type ""),
\* however many @Parameter annotations there are; without @Parameter it
\* holds none.
C13_OneSwaggerParam ==
    java.pc = "done"
        => \A j \in DOMAIN java.result :
               LET ps == java.result[j].parameters
               IN  /\ Cardinality(SwaggerAt(ps))
                          = (IF \E i \in DOMAIN JavaMethod.annots :
                                    JavaMethod.annots[i].name = "Parameter"
                             THEN 1 ELSE 0)
                   /\ \A i \in SwaggerAt(ps) :
                          ps[i] = Parameter("swagger_param", "query", "", FALSE)

\* C14: every formal parameter of an endpoint method gives exactly one
\* Parameter of the Endpoint, in declaration order and required, whatever
\* the form of its type.
C14_NoFormalParameterDropped ==
    java.pc = "done"
        => \A j \in DOMAIN java.result :
               LET ps == WithoutSwagger(java.result[j].parameters)
               IN  /\ Len(ps) = Len(JavaMethod.params)
                   /\ \A k \in DOMAIN ps :
                          ps[k].name = ParamName(k) /\ ps[k].required

\* The kind the leading annotation of a formal parameter selects.
LeadingKind(q) == JavaParamType(IF q.annots = <<>> THEN "" ELSE q.annots[1])

\* C15: the kind of every Parameter made from a formal parameter is the one
\* its first annotation selects through the fixed map, Body when it has no
\* annotation or when the first annotation is not in the map.
C15_LeadingAnnotationDecides ==
    java.pc = "done"
        => \A j \in DOMAIN java.result :
               \A i \in DOMAIN java.result[j].parameters :
                   \A k \in DOMAIN JavaMethod.params :
                       java.result[j].parameters[i].name = ParamName(k)
                           => java.result[j].parameters[i].param_type
                                  = LeadingKind(JavaMethod.params[k])

\* The verb the claimed map gives for an annotation name, None for a name
\* that stands for no concrete verb.
ClaimedVerb(name) ==
    CASE name \in {"GetMapping", "GET"} -> "GET"
      [] name \in {"PostMapping", "POST"} -> "POST"
      [] name \in {"PutMapping", "PUT"} -> "PUT"
      [] name \in {"DeleteMapping", "DELETE"} -> "DELETE"
      [] name \in {"PatchMapping", "PATCH"} -> "PATCH"
      [] OTHER -> None

\* The concrete verbs the annotations of the method stand for.
JavaMethodVerbs ==
    {ClaimedVerb(JavaMethod.annots[i].name) : i \in DOMAIN JavaMethod.annots} \ {None}

\* C16: the httpMethod of every Endpoint of a method is "ANY" when none of
\* its annotations stands for a concrete verb (only RequestMapping or Path),
\* and is a concrete verb of its annotations otherwise, so the one concrete
\* verb whatever the order of the annotations.
C16_VerbMap ==
    java.pc = "done"
        => \A j \in DOMAIN java.result :
               IF JavaMethodVerbs = {}
               THEN java.result[j].http_method = "ANY"
               ELSE java.result[j].http_method \in JavaMethodVerbs

\* An analysis that ended for a method with @PutMapping followed by
\* @RequestMapping("/a").
C16_Witness ==
    /\ java.pc = "done"
    /\ Len(java.result) = 1
    /\ Len(JavaMethod.annots) = 2
    /\ JavaMethod.annots[1].name = "PutMapping"
    /\ JavaMethod.annots[2].name = "RequestMapping"
    /\ java.result[1].http_method = "PUT"

\* The Endpoints of the Node.js result that come from the first call of the
\* file, and the string arguments of a call in order.
FromFirstCall ==
    {i \in DOMAIN node.result : node.result[i].line_number = node.file[1].line}

RECURSIVE StringArgs(_)
StringArgs(args) ==
    IF args = <<>> THEN <<>>
    ELSE (IF Head(args).type = "string" THEN <<Head(args)>> ELSE <<>>)
         \o StringArgs(Tail(args))

\* C17: a matched route call without string-literal argument gives no
\* Endpoint; one with string-literal arguments gives an Endpoint whose path
\* is the first of them without its two quotes.
C17_FirstStringIsPath ==
    (node.pc = "done" /\ RouteQueryMatches(node.file[1]))
        => LET strings == StringArgs(node.file[1].args)
           IN  IF strings = <<>> THEN FromFirstCall = {}
               ELSE /\ Cardinality(FromFirstCall) = 1
                    /\ \A i \in FromFirstCall :
                           node.result[i].path
                               = SubSeq(strings[1].text, 2, Len(strings[1].text) - 1)

\* C18: a call gives an Endpoint only when its receiver is exactly app or
\* router and its property exactly get, post, put, delete, patch or use.
C18_ExactReceiverAndVerb ==
    (node.pc = "done" /\ FromFirstCall # {})
        => /\ node.file[1].obj \in {"app", "router"}
           /\ node.file[1].method \in {"get", "post", "put", "delete", "patch", "use"}

\* C19: for every Endpoint, each segment of its path that begins with ":"
\* has a required Path parameter named by the segment without the colon,
\* whatever the handler argument.
C19_PathParameters ==
    node.pc = "done"
        => \A i \in DOMAIN node.result :
               LET parts == SplitSlash(node.result[i].path, <<>>)
               IN  \A k \in DOMAIN parts :
                       (parts[k] # <<>> /\ parts[k][1] = ":")
                           => \E q \in Range(node.result[i].parameters) :
                                  /\ q.name = Tail(parts[k])
                                  /\ q.param_type = "path"
                                  /\ q.required

\* C20: in the parameter list of an Endpoint no two Parameters have the
\* same (name, kind).
C20_NoDuplicateParameters ==
    node.pc = "done"
        => \A i \in DOMAIN node.result :
               LET ps == node.result[i].parameters
               IN  \A k, l \in DOMAIN ps :
                       k # l => ~(ps[k].name = ps[l].name
                                  /\ ps[k].param_type = ps[l].param_type)

\* The positions of the arguments of the first call that are identifiers or
\* function literals.
HandlerCandidates ==
    {i \in DOMAIN node.file[1].args :
         node.file[1].args[i].type
             \in {"identifier", "arrow_function", "function_expression"}}

\* C21: the handler of an Endpoint is the last argument of its call that is
\* an identifier or a function literal; the handler name is the
\* identifier's text, or "anonymous_handler_L<n>" with n the line on which
\* the function literal starts.
C21_HandlerIsLastCandidate ==
    (node.pc = "done" /\ HandlerCandidates # {})
        => \A i \in FromFirstCall :
               LET last == CHOOSE k \in HandlerCandidates :
                               \A l \in HandlerCandidates : l <= k
                   arg == node.file[1].args[last]
               IN  node.result[i].handler_name
                       = IF arg.type = "identifier" THEN <<arg.text>>
                         ELSE <<"anonymous_handler_L", arg.line>>

\* An Endpoint for app.get('/a', auth, () => {}) whose function literal
\* starts on line 2.
C21_Witness ==
    /\ node.pc = "done"
    /\ Len(node.result) = 1
    /\ Len(node.file[1].args) = 3
    /\ node.file[1].args[2].type = "identifier"
    /\ node.file[1].args[3].type = "arrow_function"
    /\ node.result[1].handler_name = <<"anonymous_handler_L", 2>>

\* The Parameters of the result that carry the name of the k-th declared
\* parameter.
PyNamed(k) ==
    {i \in DOMAIN py.result : py.result[i].name = py.params[k].name}

\* C22: a Python parameter whose default is a call of Path, Query or Body
\* gets that kind and is required exactly when "..." is absent from the
\* call; a parameter with another default is an optional Query; a parameter
\* without default is required, Query for a primitive-looking type hint and
\* Body for another type hint.
C22_Classification ==
    py.pc = "done"
        => \A k \in DOMAIN py.params :
               LET p == py.params[k]
               IN  /\ PyNamed(k) # {}
                   /\ \A i \in PyNamed(k) :
                          LET r == py.result[i]
                          IN  IF p.default # <<>> /\ Head(p.default) \in PySentinels
                              THEN /\ <<r.param_type>> = Lower(<<Head(p.default)>>)
                                   /\ r.required = ~HasEllipsis(p.default)
                              ELSE IF p.default # <<>>
                              THEN r.param_type = "query" /\ ~r.required
                              ELSE /\ r.required
                                   /\ p.type = <<"int">> => r.param_type = "query"
                                   /\ p.type = <<"Item">> => r.param_type = "body"

\* C23: the parameter list holds one Parameter per declared parameter, in
\* declaration order, named by the parameter's own name, with the type hint
\* as declared type, or "Any" without a type hint.
C23_OneParameterPerDeclared ==
    py.pc = "done"
        => /\ Len(py.result) = Len(py.params)
           /\ \A k \in DOMAIN py.params :
                  /\ py.result[k].name = py.params[k].name
                  /\ py.result[k].data_type
                         = IF py.params[k].type = NoText THEN <<"Any">>
                           ELSE py.params[k].type

\* What the options ask of an Endpoint: its verb among the included verbs
\* when some are given, not among the excluded verbs when some are given,
\* some auth mechanism under --auth and none under --no-auth.
Asked(endpoint) ==
    /\ scan.include_verbs # NotGiven
           => \E i \in DOMAIN scan.include_verbs :
                  Upper(endpoint.http_method)
                      = Upper(StripVerb(scan.include_verbs[i]))
    /\ scan.exclude_verbs # NotGiven
           => \A i \in DOMAIN scan.exclude_verbs :
                  Upper(endpoint.http_method)
                      # Upper(StripVerb(scan.exclude_verbs[i]))
    /\ scan.auth => endpoint.auth_mechanisms # <<>>
    /\ scan.no_auth => endpoint.auth_mechanisms = <<>>

\* C24: the Endpoints handed to the formatter are, in their original
\* order, exactly the collected Endpoints that the filter options ask for;
\* without a filter option they are the collected Endpoints.
C24_FilteredSubsequence ==
    scan.pc = "format" => scan.all_endpoints = SelectSeq(scan.collected, Asked)

\* Verbs included and excluded under --auth: of three collected Endpoints
\* only the second one is kept.
C24_Witness ==
    /\ scan.pc = "format"
    /\ scan.include_verbs = <<"GET", " post">>
    /\ scan.exclude_verbs = <<"POST">>
    /\ scan.auth
    /\ Len(scan.collected) = 3
    /\ scan.all_endpoints = <<scan.collected[2]>>
    /\ scan.collected[1].http_method = "POST"
    /\ scan.collected[3].auth_mechanisms = <<>>

\* The groups that the captures taken so far must have given: one per
\* annotation of which a capture was taken, under the annotation's start
\* offset, holding for each capture name the node captured for that
\* annotation.
JavaGroupsExpected ==
    LET mods == java.modifiers
        taken(k) == AnnotationCaptures(mods, k) \ java.captures
        some == {k \in DOMAIN mods : taken(k) # {}}
    IN  /\ Cardinality(DOMAIN java.annot_nodes) = Cardinality(some)
        /\ \A k \in some :
               /\ mods[k].start_byte \in DOMAIN java.annot_nodes
               /\ LET group == java.annot_nodes[mods[k].start_byte]
                  IN  /\ DOMAIN group = {c.name : c \in taken(k)}
                      /\ \A c \in taken(k) : group[c.name] = Head(c.path)

\* The same for the calls; a group also holds its call as endpoint_node
\* from the first capture on.
NodeGroupsExpected ==
    LET calls == node.calls
        taken(k) == CallCaptures(calls, k) \ node.captures
        some == {k \in DOMAIN calls : taken(k) # {}}
    IN  /\ Cardinality(DOMAIN node.node_captures) = Cardinality(some)
        /\ \A k \in some :
               /\ calls[k].start_byte \in DOMAIN node.node_captures
               /\ LET group == node.node_captures[calls[k].start_byte]
                  IN  /\ DOMAIN group = {c.name : c \in taken(k)} \cup {"endpoint_node"}
                      /\ group["endpoint_node"]
                             = SyntaxNode("call_expression", calls[k].start_byte)
                      /\ \A c \in taken(k) : group[c.name] = Head(c.path)

\* C25: in whatever order the captures of the annotation query and of the
\* route query arrive, every annotation and every call gets exactly one
\* group under its start offset, the group maps each capture name to the
\* node captured for that very annotation or call (so the outcome is the
\* same for every order), and no two annotations or calls share a group.
C25_OneGroupPerBoundary ==
    /\ java.pc = "correlate" => JavaGroupsExpected
    /\ node.pc = "correlate" => NodeGroupsExpected

\* All captures of @RequestMapping(headers = @X("a")) are grouped, those
\* of the inner annotation having arrived first.
C25_Witness ==
    /\ java.pc = "correlate"
    /\ java.captures = {}
    /\ Len(java.modifiers) = 2
    /\ java.modifiers[2].parent = 1
    /\ DOMAIN java.annot_nodes = {1, 15}
    /\ java.annot_nodes[15]["annotation_args"]
           = SyntaxNode("annotation_argument_list", 20)

\* The path candidates of the method as the claim C26 counts them: with a
\* concrete verb annotation and a @Path on the method, the literals of the
\* path annotations up to and including the first @Path; otherwise the
\* literals of all path annotations; the empty path when there is none.
PathCandidates ==
    LET as == JavaMethod.annots
        concrete == \E i \in DOMAIN as :
                        /\ as[i].name \in DOMAIN method_mappings
                        /\ method_mappings[as[i].name] # "ANY"
        at == {i \in DOMAIN as : as[i].name = "Path"}
        stop == IF concrete /\ at # {}
                THEN CHOOSE i \in at : \A k \in at : i <= k
                ELSE Len(as)
        bearing == IndicesIn(Len(as), {i \in 1..stop : as[i].name \in path_annotations})
        found == SeqConcat([k \in DOMAIN bearing |->
                               CollectStringLiterals(as[bearing[k]])])
    IN  IF found = <<>> THEN << <<>> >> ELSE found

\* C26: with @Path and a concrete verb annotation on a method, the path
\* candidates are the literals of the path annotations up to and including
\* that @Path and no literal of a later one; with httpMethod "ANY" every
\* path annotation contributes.  A method of a top-level class gives one
\* Endpoint per candidate, in order, and no Endpoint of any file has a path
\* made of another literal.
C26_PathStopsCollection ==
    (java.pc = "done" /\ java.result # <<>>)
        => /\ Len(java.file) = 1
               => java.result
                      = [k \in DOMAIN PathCandidates |->
                            [java.result[1] EXCEPT
                                !.path = FullPath(FindClassBasePath(JavaOwner).value,
                                                  PathCandidates[k])]]
           /\ \A j \in DOMAIN java.result :
                  \E c \in DOMAIN java.file, k \in DOMAIN PathCandidates :
                      java.result[j].path
                          = FullPath(FindClassBasePath(java.file[c]).value,
                                     PathCandidates[k])

\* @Path("b") @GetMapping("a") on a method of a top-level class: one
\* Endpoint, for the literal of @Path.
C26_Witness ==
    /\ java.pc = "done"
    /\ Len(java.file) = 1
    /\ JavaMethod.annots = <<Annotation("Path", <<Lit(2)>>),
                             Annotation("GetMapping", <<Lit(1)>>)>>
    /\ Len(java.result) = 1
    /\ java.result[1].http_method = "GET"

\* The base path of the declaring class as the claim C27 counts it: the
\* first string literal among the arguments of its @RequestMapping and
\* @Path annotations, and the empty string when there is none.
ClaimedBasePath ==
    LET as == JavaOwner.annots
        bearing == IndicesIn(Len(as), {i \in DOMAIN as :
                                           as[i].name \in {"RequestMapping", "Path"}})
        found == SeqConcat([k \in DOMAIN bearing |->
                               CollectStringLiterals(as[bearing[k]])])
    IN  IF found = <<>> THEN <<>> ELSE found[1]

\* C27: the Endpoints of a method of a top-level class are built on the
\* first string literal among the arguments of the class's @RequestMapping
\* and @Path annotations, or on the empty base path when there is none; an
\* annotation of these without string literal does not hide the literal of
\* another one.
C27_FirstLiteralIsBasePath ==
    (java.pc = "done" /\ Len(java.file) = 1 /\ java.result # <<>>)
        => \A j \in DOMAIN java.result :
               \E k \in DOMAIN PathCandidates :
                   java.result[j].path = FullPath(ClaimedBasePath, PathCandidates[k])

\* C28: a method declared in a nested class gives its Endpoints once, each
\* built on the base path and the class-level auth of the class that
\* declares it, and never a further time on those of the outer class.
C28_NestedMethodOnce ==
    (java.pc = "done" /\ Len(java.file) = 2 /\ java.result # <<>>)
        => /\ Len(java.result) = Len(PathCandidates)
           /\ \A j \in DOMAIN java.result :
                  /\ \E k \in DOMAIN PathCandidates :
                         java.result[j].path
                             = FullPath(FindClassBasePath(JavaOwner).value,
                                        PathCandidates[k])
                  /\ Range(java.result[j].auth_mechanisms)
                         = AuthNamesOn(JavaOwner.annots)
                               \cup AuthNamesOn(JavaMethod.annots)

\* The language tag of a suffix.
LanguageTag(suffix) ==
    CASE suffix = ".py" -> "python"
      [] suffix = ".java" -> "java"
      [] suffix = ".js" -> "javascript"
      [] suffix = ".ts" -> "typescript"

\* The selected files of the walk, in walk order, each with its tag.
SelectedAs ==
    LET ks == IndicesIn(Len(scan.files),
                        {k \in 1..Len(scan.files) : Selected(scan.files[k])})
    IN  [j \in DOMAIN ks |-> <<ks[j], LanguageTag(scan.files[ks[j]].suffix)>>]

\* C29: whether run in verbose or in quiet mode, a scan has analyzed the
\* selected files of the walk, in walk order, each under the tag of its
\* suffix, and ends with the Endpoints of those that did not raise, in that
\* order, each carrying its file's path relative to the repository root:
\* nothing in these depends on the mode.
C29_ModesAgree ==
    scan.pc = "done"
        => /\ scan.analyzed_as = SelectedAs
           /\ scan.all_endpoints
                  = SeqConcat([j \in DOMAIN SelectedAs |->
                        LET k == SelectedAs[j][1]
                        IN  IF scan.files[k].outcome # "ok" THEN <<>>
                            ELSE [e \in 1..scan.files[k].n |->
                                     [file_path |-> RelativePath(k),
                                      handler_name |-> <<k, e>>]]])

\* A quiet scan over a .ts file, a file passed over and a .py file.
C29_Witness ==
    /\ scan.pc = "done"
    /\ ~scan.verbose
    /\ Len(scan.files) = 3
    /\ scan.files[2].filtered
    /\ scan.analyzed_as = << <<1, "typescript">>, <<3, "python">> >>
    /\ Len(scan.all_endpoints) >= 2

\* C30: when a scan of a Git URL has ended, in whatever way, the temporary
\* clone directory it created is gone and was removed by exactly one call;
\* a scan of a local directory has removed nothing.
C30_TempDirRemovedOnce ==
    scan.pc = "ended"
        => IF scan.is_git_url /\ scan.temp_dir # None
           THEN scan.rmtree_calls = 1 /\ TempDir \notin scan.dirs
           ELSE scan.rmtree_calls = 0

=============================================================================
